---- MODULE Spec2Model ----
(***************************************************************************)
(* Model of the graphics-entity mapping layer of the viewer:               *)
(*   - GraphicsShapeEntityDriver / GraphicsMeshEntityDriver                *)
(*     (src/src/graphics/graphics_entity_driver.cpp)                       *)
(*   - GuiDocument (src/src/gui/gui_document.cpp, gui_document.h)          *)
(* and of its file readers and writers:                                    *)
(*   - OccStepReader / OccStepWriter (src/src/base/io_occ_step.cpp)        *)
(*   - OccGltfWriter (src/src/base/io_occ_gltf_writer.cpp)                 *)
(*   - OccVrmlWriter (src/src/base/io_occ_vrml.cpp)                        *)
(* The geometry kernel is modelled by the observable state the repository  *)
(* code reads back from it: which objects a scene holds and shows, which   *)
(* owners are selected, where the z-buffer trihedron is displayed.         *)
(***************************************************************************)
EXTENDS Integers, Sequences, FiniteSets, TLC

VARIABLES
    document,               \* Document: sequence of [id, label], the live entities
    m_vecGraphicsItem,      \* GuiDocument::m_vecGraphicsItem (the side-table)
    m_gpxBoundingBox,       \* GuiDocument::m_gpxBoundingBox
    m_gfxScene,             \* GuiDocument::m_gfxScene: [objects, visible, selected]
    m_v3dView,              \* GuiDocument::m_v3dView: the z-buffer trihedron of the view
    m_viewTrihedronMode,    \* GuiDocument::m_viewTrihedronMode
    m_viewTrihedronCorner,  \* GuiDocument::m_viewTrihedronCorner
    m_aisViewCube,          \* GuiDocument::m_aisViewCube: null or [corner2d]
    m_cameraAnimation,      \* GuiDocument::m_cameraAnimation: the V3dViewCameraAnimation
    emitted,                \* Qt signals emitted by the last operation, in order
    lastOp,                 \* the last operation called on the GuiDocument
    driverCall,             \* the last call made on an entity driver, with its result
    properties,             \* the PropertyGroup the user edits: [type, one field per property]
    io,                     \* the reader and writer objects, one per class
    kernel,                 \* what the geometry kernel was last asked to write
    statics,                \* Interface_Static: the kernel's global static variables
    cafLock,                \* the global CAF lock: the thread holding it, or 0
    threads,                \* the threads running STEP operations, and their objects
    display,                \* a scene with entities whose display mode changes
    call,                   \* the last call made on a reader, writer or display driver
    lastTransfer            \* how the last transfer on a writer ended, if there was one

guiVars == << document, m_vecGraphicsItem, m_gpxBoundingBox, m_gfxScene, m_v3dView,
              m_viewTrihedronMode, m_viewTrihedronCorner, m_aisViewCube,
              m_cameraAnimation, emitted, lastOp, driverCall >>

ioVars == << properties, io, kernel, statics, cafLock, threads, display, call,
             lastTransfer >>

vars == << document, m_vecGraphicsItem, m_gpxBoundingBox, m_gfxScene, m_v3dView,
           m_viewTrihedronMode, m_viewTrihedronCorner, m_aisViewCube,
           m_cameraAnimation, emitted, lastOp, driverCall, properties, io, kernel, statics, cafLock,
           threads, display, call, lastTransfer >>

\* ------------------------------------------------------------------ bounds
MaxEntities == 2        \* entity tree-node ids are 1..MaxEntities
MaxCoord    == 1        \* bounding boxes are intervals within 0..MaxCoord
MaxFaces    == 2        \* sub-nodes (faces) below each entity root
MaxAnimations == 2      \* camera animations started on one GuiDocument

\* ------------------------------------------------------------ bounding box
\* Bnd_Box, in one dimension: the set of integer points it covers.  The void
\* box covers nothing.
VoidBox == {}

Boxes == { lo..hi : lo \in 0..MaxCoord, hi \in 0..MaxCoord }

SetMin(S) == CHOOSE x \in S : \A y \in S : x <= y
SetMax(S) == CHOOSE x \in S : \A y \in S : x >= y

\* BndUtils::add(&box, other): enlarge box so that it also encloses other.
BndUtils_add(box, other) ==
    IF other = VoidBox THEN box
    ELSE IF box = VoidBox THEN other
    ELSE SetMin(box \cup other) .. SetMax(box \cup other)

\* ------------------------------------------------------------------ labels
\* A TDF_Label as the drivers see it:
\*   isShape    XCaf::isShape(label)
\*   shapeType  XCaf::shape(label).ShapeType(), read only when isShape
\*   triAttr    the TDataXtd_Triangulation attribute: "absent", "empty" (the
\*              attribute exists and holds a null Poly_Triangulation) or "set"
\*   faceTri    BRep_TFace::Triangulation() of a FACE shape is non-null
\*   bndBox     the bounding box of the presentation built from the label
ShapeTypes == { "TopAbs_COMPOUND", "TopAbs_COMPSOLID", "TopAbs_SOLID", "TopAbs_SHELL",
                "TopAbs_FACE", "TopAbs_WIRE", "TopAbs_EDGE", "TopAbs_VERTEX",
                "TopAbs_SHAPE" }

TriAttrs == { "absent", "empty", "set" }

Label(isShape, shapeType, triAttr, faceTri, bndBox) ==
    [ isShape |-> isShape, shapeType |-> shapeType, triAttr |-> triAttr,
      faceTri |-> faceTri, bndBox |-> bndBox ]

NullLabel == Label(FALSE, "TopAbs_SHAPE", "absent", FALSE, VoidBox)

\* Every label the drivers can distinguish (the box plays no part in them).
DriverLabels ==
    { Label(FALSE, "TopAbs_SHAPE", t, FALSE, VoidBox) : t \in TriAttrs }
    \cup { Label(TRUE, s, t, FALSE, VoidBox) : s \in ShapeTypes, t \in TriAttrs }
    \cup { Label(TRUE, "TopAbs_FACE", t, TRUE, VoidBox) : t \in TriAttrs }

\* The labels of the entities of the modelled document: one that no driver
\* supports, solids (shape driver) and triangulation carriers (mesh driver).
DocLabelsWith(boxes) ==
    { Label(FALSE, "TopAbs_SHAPE", "absent", FALSE, VoidBox) }
    \cup { Label(TRUE, "TopAbs_SOLID", "absent", FALSE, b) : b \in boxes }
    \cup { Label(FALSE, "TopAbs_SHAPE", "set", FALSE, b) : b \in boxes }

DocLabels == DocLabelsWith(Boxes)

XCaf_isShape(label) == label.isShape

\* CafUtils::hasAttribute<TDataXtd_Triangulation>(label)
CafUtils_hasAttribute(label) == label.triAttr # "absent"

\* ----------------------------------------------------------------- objects
\* A handle to an AIS_InteractiveObject: <<class, address>>.
NullObject == << "null", 0 >>
ViewCubeObject == << "AIS_ViewCube", 0 >>

\* GraphicsEntity(): the default-constructed entity.
NullEntity ==
    [ m_label |-> NullLabel, m_driverPtr |-> "nullptr", m_aisObject |-> NullObject,
      m_aisBndBox |-> VoidBox ]

\* ----------------------------------------------------------------- drivers
ShapeDriver == "GraphicsShapeEntityDriver"
MeshDriver  == "GraphicsMeshEntityDriver"
Drivers == { ShapeDriver, MeshDriver }

\* GraphicsEntityDriver::initEntity
initEntity(driver, label) ==
    [ NullEntity EXCEPT !.m_label = label, !.m_driverPtr = driver ]

\* GraphicsEntityDriver::setEntityAisObject.  The box is the one the kernel
\* computes for the presentation of the label.
setEntityAisObject(entity, obj) ==
    [ entity EXCEPT !.m_aisObject = obj, !.m_aisBndBox = entity.m_label.bndBox ]

\* Mutant: the commented-out "return Support::Partial" is live.
GraphicsShapeEntityDriver_supportStatus_partial(label) ==
    IF XCaf_isShape(label) THEN "Complete"
    ELSE IF CafUtils_hasAttribute(label) THEN "Partial"
    ELSE "None"

GraphicsShapeEntityDriver_supportStatus(label) ==
    IF XCaf_isShape(label) THEN "Complete"
    ELSE IF CafUtils_hasAttribute(label) THEN "None"   \* "return Support::Partial" is commented out
    ELSE "None"

GraphicsShapeEntityDriver_createEntity(label, addr) ==
    LET entity == initEntity(ShapeDriver, label)
    IN  IF XCaf_isShape(label)
        THEN setEntityAisObject(entity, << "XCAFPrs_AISObject", addr >>)
        ELSE IF CafUtils_hasAttribute(label) THEN entity   \* empty branch
        ELSE entity

GraphicsMeshEntityDriver_supportStatus(label) ==
    IF CafUtils_hasAttribute(label) THEN "Complete"
    ELSE IF XCaf_isShape(label) /\ label.shapeType = "TopAbs_FACE" THEN "Partial"
    ELSE "None"

\* Mutant: the triangulation of a FACE is taken before the attribute is looked at.
GraphicsMeshEntityDriver_polyTri_faceFirst(label) ==
    IF XCaf_isShape(label) /\ label.shapeType = "TopAbs_FACE" THEN label.faceTri
    ELSE IF CafUtils_hasAttribute(label) THEN label.triAttr = "set"
    ELSE FALSE

\* The Poly_Triangulation GraphicsMeshEntityDriver::createEntity selects:
\* TRUE when it is non-null.
GraphicsMeshEntityDriver_polyTri(label) ==
    IF CafUtils_hasAttribute(label) THEN label.triAttr = "set"
    ELSE IF XCaf_isShape(label) /\ label.shapeType = "TopAbs_FACE" THEN label.faceTri
    ELSE FALSE

\* Mutant: the entity is initialised only once its object is built.
GraphicsMeshEntityDriver_createEntity_lateInit(label, addr) ==
    IF GraphicsMeshEntityDriver_polyTri(label)
    THEN setEntityAisObject(initEntity(MeshDriver, label), << "MeshVS_Mesh", addr >>)
    ELSE NullEntity

GraphicsMeshEntityDriver_createEntity(label, addr) ==
    LET entity == initEntity(MeshDriver, label)
    IN  IF GraphicsMeshEntityDriver_polyTri(label)
        THEN setEntityAisObject(entity, << "MeshVS_Mesh", addr >>)
        ELSE entity

supportStatus(driver, label) ==
    IF driver = ShapeDriver THEN GraphicsShapeEntityDriver_supportStatus(label)
    ELSE GraphicsMeshEntityDriver_supportStatus(label)

createEntity(driver, label, addr) ==
    IF driver = ShapeDriver THEN GraphicsShapeEntityDriver_createEntity(label, addr)
    ELSE GraphicsMeshEntityDriver_createEntity(label, addr)

\* GraphicsEntityDriverTable: the drivers in registration order.
m_vecDriver == << ShapeDriver, MeshDriver >>

\* GraphicsEntityDriverTable::createEntity: the first driver with complete
\* support creates the entity, else the last one with partial support, else
\* the result is a default entity.
GraphicsEntityDriverTable_createEntity(label, addr) ==
    LET complete == { i \in DOMAIN m_vecDriver :
                        supportStatus(m_vecDriver[i], label) = "Complete" }
        partial  == { i \in DOMAIN m_vecDriver :
                        supportStatus(m_vecDriver[i], label) = "Partial" }
    IN  IF complete # {}
        THEN createEntity(m_vecDriver[SetMin(complete)], label, addr)
        ELSE IF partial # {}
        THEN createEntity(m_vecDriver[SetMax(partial)], label, addr)
        ELSE NullEntity

\* ------------------------------------------------------------ document tree
\* The model tree of the document: the entity roots are 1..MaxEntities and
\* every root e has the sub-nodes e + k * MaxEntities, k in 1..MaxFaces (the
\* faces of the entity's shape).  Node 0 is the null id.
EntityIds == 1..MaxEntities
TreeNodeIds == 1..(MaxEntities * (MaxFaces + 1))

\* Tree::nodeRoot
nodeRoot(node) == ((node - 1) % MaxEntities) + 1

\* The face a sub-node stands for; 0 for an entity root.
nodeFace(node) == (node - 1) \div MaxEntities

docIds(doc) == { doc[i].id : i \in DOMAIN doc }

\* DocumentTreeNode(doc, id).label()
docLabel(doc, id) ==
    IF id \in docIds(doc)
    THEN (CHOOSE e \in { doc[i] : i \in DOMAIN doc } : e.id = id).label
    ELSE NullLabel

\* ------------------------------------------------------------------- scene
\* GraphicsScene: the objects the interactive context holds, those it shows
\* and the selected owners.  An owner is [obj, face].
EmptyScene == [ objects |-> {}, visible |-> {}, selected |-> {} ]

GraphicsScene_addObject(scene, obj) ==
    IF obj = NullObject THEN scene
    ELSE [ scene EXCEPT !.objects = @ \cup {obj}, !.visible = @ \cup {obj} ]

GraphicsScene_setObjectVisible(scene, obj, on) ==
    IF obj = NullObject THEN scene
    ELSE IF on THEN [ scene EXCEPT !.objects = @ \cup {obj}, !.visible = @ \cup {obj} ]
    ELSE [ scene EXCEPT !.visible = @ \ {obj} ]

GraphicsScene_isObjectVisible(scene, obj) == obj \in scene.visible

\* Erasing an object takes its owners out of the selection with it.
GraphicsScene_eraseObject(scene, obj) ==
    [ objects  |-> scene.objects \ {obj},
      visible  |-> scene.visible \ {obj},
      selected |-> { o \in scene.selected : o.obj # obj } ]

GraphicsScene_toggleOwnerSelection(scene, owner) ==
    [ scene EXCEPT !.selected = IF owner \in @ THEN @ \ {owner} ELSE @ \cup {owner} ]

\* ------------------------------------------------------ tree-node mapping
NullMapping == [ isNull |-> TRUE, owners |-> << >> ]

\* GraphicsTreeNodeMappingDriverTable::createMapping followed by the
\* mapGraphicsOwner calls of mapGraphics: shapes get a mapping from each face
\* to the owner of that face, other entities get none.
createMapping(entity) ==
    IF XCaf_isShape(entity.m_label)
    THEN [ isNull |-> FALSE,
           owners |-> [ k \in 1..MaxFaces |-> [ obj |-> entity.m_aisObject, face |-> k ] ] ]
    ELSE NullMapping

\* GraphicsTreeNodeMapping::findGraphicsOwners: the owners of the faces below
\* the node, each once.
findGraphicsOwners(mapping, node) ==
    IF nodeFace(node) = 0 THEN mapping.owners
    ELSE << mapping.owners[nodeFace(node)] >>

\* ------------------------------------------------------------- GuiDocument
ViewTrihedronModes == { "None", "V3dViewZBuffer", "AisViewCube" }

QtCorners == { "TopLeftCorner", "TopRightCorner", "BottomLeftCorner", "BottomRightCorner" }

toOccCorner(corner) ==
    CASE corner = "TopLeftCorner"     -> "Aspect_TOTP_LEFT_UPPER"
      [] corner = "TopRightCorner"    -> "Aspect_TOTP_RIGHT_UPPER"
      [] corner = "BottomLeftCorner"  -> "Aspect_TOTP_LEFT_LOWER"
      [] corner = "BottomRightCorner" -> "Aspect_TOTP_RIGHT_LOWER"
      [] OTHER                        -> "Aspect_TOTP_LEFT_UPPER"

NullViewCube == [ isNull |-> TRUE, corner2d |-> "none" ]

NoTriedron == [ triedronDisplayed |-> FALSE, triedronPosition |-> "none" ]

\* A signal emission: graphicsBoundingBoxChanged carries a box, the two
\* trihedron signals carry a mode or a corner.
Signal(name, box, val) == [ signal |-> name, box |-> box, val |-> val ]

emit(g, sig) == [ g EXCEPT !.emitted = Append(@, sig) ]

\* The V3dViewCameraAnimation of a GuiDocument: the view change it was last
\* configured with, its QAbstractAnimation state, and how many times it was
\* configured and started.
NoViewChange == [ SetProj |-> "none", fitAll |-> FALSE ]

V3dViewCameraAnimation_new ==
    [ easingCurve |-> "QEasingCurve::OutExpo", fnViewChange |-> NoViewChange,
      state |-> "Stopped", nbConfigure |-> 0, nbStart |-> 0 ]

V3dViewCameraAnimation_configure(animation, fnViewChange) ==
    [ animation EXCEPT !.fnViewChange = fnViewChange, !.nbConfigure = @ + 1 ]

V3dViewCameraAnimation_start(animation) ==
    [ animation EXCEPT !.state = "Running", !.nbStart = @ + 1 ]

V3dViewCameraAnimation_stop(animation) ==
    [ animation EXCEPT !.state = "Stopped" ]

\* The GuiDocument with its member initializers (gui_document.h).
GuiDocument_members ==
    [ m_vecGraphicsItem     |-> << >>,
      m_gpxBoundingBox      |-> VoidBox,
      m_gfxScene            |-> EmptyScene,
      m_v3dView             |-> NoTriedron,
      m_viewTrihedronMode   |-> "None",
      m_viewTrihedronCorner |-> "BottomLeftCorner",
      m_aisViewCube         |-> NullViewCube,
      m_cameraAnimation     |-> V3dViewCameraAnimation_new,
      emitted               |-> << >> ]

\* GuiDocument::findGraphicsItem: the index of the first item of the node, 0
\* for nullptr.
findGraphicsItem(g, entityTreeNodeId) ==
    LET found == { i \in DOMAIN g.m_vecGraphicsItem :
                     g.m_vecGraphicsItem[i].entityTreeNodeId = entityTreeNodeId }
    IN  IF found = {} THEN 0 ELSE SetMin(found)

\* GuiDocument::findGraphicsEntity
findGraphicsEntity(g, entityTreeNodeId) ==
    LET gfxItem == findGraphicsItem(g, entityTreeNodeId)
    IN  IF gfxItem # 0 THEN g.m_vecGraphicsItem[gfxItem].graphicsEntity ELSE NullEntity

\* The address operator new gives the next object: one no item's object has.
newAddress(g) ==
    LET used == { g.m_vecGraphicsItem[i].graphicsEntity.m_aisObject[2] :
                    i \in DOMAIN g.m_vecGraphicsItem }
    IN  SetMin((1..(Len(g.m_vecGraphicsItem) + 1)) \ used)

\* GuiDocument::v3dViewTrihedronDisplay
v3dViewTrihedronDisplay(g, corner) ==
    [ g EXCEPT !.m_v3dView = [ triedronDisplayed |-> TRUE,
                               triedronPosition  |-> toOccCorner(corner) ] ]

\* V3d_View::TriedronErase
TriedronErase(g) == [ g EXCEPT !.m_v3dView = NoTriedron ]

fnViewCubeSetVisible(g, on) ==
    [ g EXCEPT !.m_gfxScene =
        GraphicsScene_setObjectVisible(@, IF g.m_aisViewCube.isNull THEN NullObject
                                          ELSE ViewCubeObject, on) ]

\* The AisViewCube case of setViewTrihedronMode creates the cube on first use.
createViewCube(g) ==
    IF g.m_aisViewCube.isNull
    THEN [ g EXCEPT !.m_aisViewCube = [ isNull   |-> FALSE,
                                        corner2d |-> toOccCorner(g.m_viewTrihedronCorner) ],
                    !.m_gfxScene = GraphicsScene_addObject(@, ViewCubeObject) ]
    ELSE g

\* Mutant: the V3dViewZBuffer case leaves the view cube as it is.
setViewTrihedronMode_cubeStays(g, mode) ==
    IF mode = g.m_viewTrihedronMode THEN g
    ELSE LET g1 == CASE mode = "None" ->
                          fnViewCubeSetVisible(TriedronErase(g), FALSE)
                     [] mode = "V3dViewZBuffer" ->
                          v3dViewTrihedronDisplay(g, g.m_viewTrihedronCorner)
                     [] mode = "AisViewCube" ->
                          fnViewCubeSetVisible(TriedronErase(createViewCube(g)), TRUE)
         IN  emit([ g1 EXCEPT !.m_viewTrihedronMode = mode ],
                  Signal("viewTrihedronModeChanged", VoidBox, mode))

\* Mutant: no early return when the mode is the current one.
setViewTrihedronMode_noGuard(g, mode) ==
    LET g1 == CASE mode = "None" ->
                     fnViewCubeSetVisible(TriedronErase(g), FALSE)
                [] mode = "V3dViewZBuffer" ->
                     fnViewCubeSetVisible(
                         v3dViewTrihedronDisplay(g, g.m_viewTrihedronCorner), FALSE)
                [] mode = "AisViewCube" ->
                     fnViewCubeSetVisible(TriedronErase(createViewCube(g)), TRUE)
    IN  emit([ g1 EXCEPT !.m_viewTrihedronMode = mode ],
             Signal("viewTrihedronModeChanged", VoidBox, mode))

\* GuiDocument::setViewTrihedronMode
setViewTrihedronMode(g, mode) ==
    IF mode = g.m_viewTrihedronMode THEN g
    ELSE LET g1 == CASE mode = "None" ->
                          fnViewCubeSetVisible(TriedronErase(g), FALSE)
                     [] mode = "V3dViewZBuffer" ->
                          fnViewCubeSetVisible(
                              v3dViewTrihedronDisplay(g, g.m_viewTrihedronCorner), FALSE)
                     [] mode = "AisViewCube" ->
                          fnViewCubeSetVisible(TriedronErase(createViewCube(g)), TRUE)
         IN  emit([ g1 EXCEPT !.m_viewTrihedronMode = mode ],
                  Signal("viewTrihedronModeChanged", VoidBox, mode))

\* Mutant: the None case lacks its break and falls into the V3dViewZBuffer one.
setViewTrihedronCorner_fallthrough(g, corner) ==
    IF corner = g.m_viewTrihedronCorner THEN g
    ELSE LET g1 == CASE g.m_viewTrihedronMode = "None" ->
                          v3dViewTrihedronDisplay(g, corner)
                     [] g.m_viewTrihedronMode = "V3dViewZBuffer" ->
                          v3dViewTrihedronDisplay(g, corner)
                     [] g.m_viewTrihedronMode = "AisViewCube" ->
                          IF ~g.m_aisViewCube.isNull
                          THEN [ g EXCEPT !.m_aisViewCube.corner2d = toOccCorner(corner) ]
                          ELSE g
         IN  emit([ g1 EXCEPT !.m_viewTrihedronCorner = corner ],
                  Signal("viewTrihedronCornerChanged", VoidBox, corner))

\* GuiDocument::setViewTrihedronCorner
setViewTrihedronCorner(g, corner) ==
    IF corner = g.m_viewTrihedronCorner THEN g
    ELSE LET g1 == CASE g.m_viewTrihedronMode = "None" -> g
                     [] g.m_viewTrihedronMode = "V3dViewZBuffer" ->
                          v3dViewTrihedronDisplay(g, corner)
                     [] g.m_viewTrihedronMode = "AisViewCube" ->
                          IF ~g.m_aisViewCube.isNull
                          THEN [ g EXCEPT !.m_aisViewCube.corner2d = toOccCorner(corner) ]
                          ELSE g
         IN  emit([ g1 EXCEPT !.m_viewTrihedronCorner = corner ],
                  Signal("viewTrihedronCornerChanged", VoidBox, corner))

\* GuiDocument::mapGraphics
mapGraphics(g, doc, entityTreeNodeId) ==
    LET gfxEntity == GraphicsEntityDriverTable_createEntity(
                         docLabel(doc, entityTreeNodeId), newAddress(g))
    IN  IF gfxEntity.m_aisObject = NullObject THEN g
        ELSE LET item == [ graphicsEntity     |-> gfxEntity,
                           entityTreeNodeId   |-> entityTreeNodeId,
                           gpxTreeNodeMapping |-> createMapping(gfxEntity) ]
             IN  [ g EXCEPT
                     \* gfxEntity.setScene(&m_gfxScene); gfxEntity.setVisible(true)
                     !.m_gfxScene = GraphicsScene_setObjectVisible(
                                        @, gfxEntity.m_aisObject, TRUE),
                     !.m_gpxBoundingBox = BndUtils_add(@, gfxEntity.m_aisBndBox),
                     !.m_vecGraphicsItem = Append(@, item) ]

\* Mutant: the signal carries the box as it was before the mapping.
onDocumentEntityAdded_staleSignal(g, doc, entityTreeNodeId) ==
    LET g1 == mapGraphics(g, doc, entityTreeNodeId)
    IN  emit(g1, Signal("graphicsBoundingBoxChanged", g.m_gpxBoundingBox, ""))

\* GuiDocument::onDocumentEntityAdded
onDocumentEntityAdded(g, doc, entityTreeNodeId) ==
    LET g1 == mapGraphics(g, doc, entityTreeNodeId)
    IN  emit(g1, Signal("graphicsBoundingBoxChanged", g1.m_gpxBoundingBox, ""))

\* std::vector::erase(begin() + i): the other elements keep their order.
vectorErase(vec, i) ==
    [ j \in 1..(Len(vec) - 1) |-> IF j < i THEN vec[j] ELSE vec[j + 1] ]

\* The loop of onDocumentEntityAboutToBeDestroyed that recomputes the box,
\* over items[1..n].
RECURSIVE recomputeBoundingBox(_, _)
recomputeBoundingBox(items, n) ==
    IF n = 0 THEN VoidBox
    ELSE BndUtils_add(recomputeBoundingBox(items, n - 1),
                      items[n].graphicsEntity.m_aisBndBox)

\* Mutant: the object is erased from the scene but its item stays in the
\* side-table.
onDocumentEntityAboutToBeDestroyed_keepItem(g, entityTreeNodeId) ==
    LET gfxItem == findGraphicsItem(g, entityTreeNodeId)
    IN  IF gfxItem = 0 THEN g
        ELSE LET items == g.m_vecGraphicsItem
                 box   == recomputeBoundingBox(items, Len(items))
             IN  emit([ g EXCEPT
                          !.m_gfxScene = GraphicsScene_eraseObject(
                              @, g.m_vecGraphicsItem[gfxItem].graphicsEntity.m_aisObject),
                          !.m_gpxBoundingBox = box ],
                      Signal("graphicsBoundingBoxChanged", box, ""))

\* Mutant: the item is removed but the box is not recomputed.
onDocumentEntityAboutToBeDestroyed_staleBox(g, entityTreeNodeId) ==
    LET gfxItem == findGraphicsItem(g, entityTreeNodeId)
    IN  IF gfxItem = 0 THEN g
        ELSE emit([ g EXCEPT
                      !.m_gfxScene = GraphicsScene_eraseObject(
                          @, g.m_vecGraphicsItem[gfxItem].graphicsEntity.m_aisObject),
                      !.m_vecGraphicsItem = vectorErase(g.m_vecGraphicsItem, gfxItem) ],
                  Signal("graphicsBoundingBoxChanged", g.m_gpxBoundingBox, ""))

\* Mutant: the item is removed but its object is left in the scene.
onDocumentEntityAboutToBeDestroyed_noErase(g, entityTreeNodeId) ==
    LET gfxItem == findGraphicsItem(g, entityTreeNodeId)
    IN  IF gfxItem = 0 THEN g
        ELSE LET items == vectorErase(g.m_vecGraphicsItem, gfxItem)
                 box   == recomputeBoundingBox(items, Len(items))
             IN  emit([ g EXCEPT !.m_vecGraphicsItem = items, !.m_gpxBoundingBox = box ],
                      Signal("graphicsBoundingBoxChanged", box, ""))

\* GuiDocument::onDocumentEntityAboutToBeDestroyed
onDocumentEntityAboutToBeDestroyed(g, entityTreeNodeId) ==
    LET gfxItem == findGraphicsItem(g, entityTreeNodeId)
    IN  IF gfxItem = 0 THEN g
        ELSE LET items == vectorErase(g.m_vecGraphicsItem, gfxItem)
                 box   == recomputeBoundingBox(items, Len(items))
             IN  emit([ g EXCEPT
                          !.m_gfxScene = GraphicsScene_eraseObject(
                              @, g.m_vecGraphicsItem[gfxItem].graphicsEntity.m_aisObject),
                          !.m_vecGraphicsItem = items,
                          !.m_gpxBoundingBox = box ],
                      Signal("graphicsBoundingBoxChanged", box, ""))

\* Mutant: an owner that is selected already is left selected.
RECURSIVE toggleOwners_selectOnly(_, _, _)
toggleOwners_selectOnly(scene, vecGfxOwner, n) ==
    IF n = 0 THEN scene
    ELSE LET sc == toggleOwners_selectOnly(scene, vecGfxOwner, n - 1)
         IN  [ sc EXCEPT !.selected = @ \cup { vecGfxOwner[n] } ]

\* The loop of toggleItemSelected over vecGfxOwner[1..n].
RECURSIVE toggleOwners(_, _, _)
toggleOwners(scene, vecGfxOwner, n) ==
    IF n = 0 THEN scene
    ELSE GraphicsScene_toggleOwnerSelection(
             toggleOwners(scene, vecGfxOwner, n - 1), vecGfxOwner[n])

\* Mutant: the document of the item is not compared with the GuiDocument's.
toggleItemSelected_anyDocument(g, appItem) ==
    IF appItem.kind = "DocumentTreeNode"
    THEN LET entityNodeId == nodeRoot(appItem.node)
             gfxItem == findGraphicsItem(g, entityNodeId)
         IN  IF gfxItem # 0 /\ ~g.m_vecGraphicsItem[gfxItem].gpxTreeNodeMapping.isNull
             THEN LET vecGfxOwner == findGraphicsOwners(
                          g.m_vecGraphicsItem[gfxItem].gpxTreeNodeMapping, appItem.node)
                  IN  [ g EXCEPT !.m_gfxScene =
                                     toggleOwners(@, vecGfxOwner, Len(vecGfxOwner)) ]
             ELSE g
    ELSE g

\* GuiDocument::toggleItemSelected.  An ApplicationItem is [doc, kind, node];
\* the GuiDocument's own document is "this".
toggleItemSelected(g, appItem) ==
    IF appItem.doc # "this" THEN g
    ELSE IF appItem.kind = "DocumentTreeNode"
    THEN LET entityNodeId == nodeRoot(appItem.node)
             gfxItem == findGraphicsItem(g, entityNodeId)
         IN  IF gfxItem # 0 /\ ~g.m_vecGraphicsItem[gfxItem].gpxTreeNodeMapping.isNull
             THEN LET vecGfxOwner == findGraphicsOwners(
                          g.m_vecGraphicsItem[gfxItem].gpxTreeNodeMapping, appItem.node)
                  IN  [ g EXCEPT !.m_gfxScene =
                                     toggleOwners(@, vecGfxOwner, Len(vecGfxOwner)) ]
             ELSE g
    ELSE g

\* The loop of the constructor over the entities doc[1..n].
RECURSIVE mapAllGraphics(_, _, _)
mapAllGraphics(g, doc, n) ==
    IF n = 0 THEN g
    ELSE mapGraphics(mapAllGraphics(g, doc, n - 1), doc, doc[n].id)

\* A graphics owner is [obj, face]; the owners of the view cube carry the
\* main orientation of the part of the cube they stand for.
NullOwner == [ obj |-> NullObject, face |-> 0 ]

MainOrientations == { "V3d_Xpos", "V3d_Zneg", "V3d_XposYnegZpos" }

ViewCubeOwner(orientation) ==
    [ obj |-> ViewCubeObject, face |-> 0, MainOrientation |-> orientation ]

\* opencascade::handle<AIS_ViewCubeOwner>::DownCast(owner).IsNull()
AIS_ViewCubeOwner_DownCast_IsNull(graphicsOwner) == graphicsOwner.obj # ViewCubeObject

\* Mutant: the animation is configured and left as it was.
runViewCameraAnimation_noStart(g, fnViewChange) ==
    [ g EXCEPT !.m_cameraAnimation = V3dViewCameraAnimation_configure(@, fnViewChange) ]

\* GuiDocument::runViewCameraAnimation
runViewCameraAnimation(g, fnViewChange) ==
    [ g EXCEPT !.m_cameraAnimation =
          V3dViewCameraAnimation_start(V3dViewCameraAnimation_configure(@, fnViewChange)) ]

\* GuiDocument::setViewCameraOrientation: the view change sets the projection
\* and fits all.
setViewCameraOrientation(g, projection) ==
    runViewCameraAnimation(g, [ SetProj |-> projection, fitAll |-> TRUE ])

\* GuiDocument::stopViewCameraAnimation
stopViewCameraAnimation(g) ==
    [ g EXCEPT !.m_cameraAnimation = V3dViewCameraAnimation_stop(@) ]

\* GuiDocument::processAction (OpenCascade >= 7.4)
processAction(g, graphicsOwner) ==
    IF graphicsOwner = NullOwner THEN g
    ELSE IF ~AIS_ViewCubeOwner_DownCast_IsNull(graphicsOwner)
         THEN setViewCameraOrientation(g, graphicsOwner.MainOrientation)
         ELSE g

\* GuiDocument::GuiDocument (OpenCascade >= 7.4).  The signals it emits have
\* no receiver yet.
GuiDocument_ctor(doc) ==
    LET g1 == setViewTrihedronMode(GuiDocument_members, "AisViewCube")
        g2 == setViewTrihedronCorner(g1, "TopLeftCorner")
        g3 == mapAllGraphics(g2, doc, Len(doc))
    IN  [ g3 EXCEPT !.emitted = << >> ]

\* ------------------------------------------------------ readers and writers
\* The PropertyGroup types: one Properties class per reader or writer class.
IoClasses == { "OccStepReader", "OccStepWriter", "OccGltfWriter", "OccVrmlWriter" }

\* A default-constructed Parameters of each class.
OccStepReader_Parameters ==
    [ productContext               |-> "Both",
      assemblyLevel                |-> "All",
      preferredShapeRepresentation |-> "All",
      readShapeAspect              |-> TRUE,
      readSubShapesNames           |-> FALSE,
      encoding                     |-> "UTF8" ]

OccStepWriter_Parameters ==
    [ schema                |-> "AP214_CD",
      lengthUnit            |-> "Millimeter",
      assemblyMode          |-> "Skip",
      freeVertexMode        |-> "Compound",
      writeParametricCurves |-> TRUE,
      writeSubShapesNames   |-> FALSE ]

OccGltfWriter_Parameters ==
    [ coordinatesConverter |-> "Undefined",
      transformationFormat |-> "Compact",
      format               |-> "Binary",
      forceExportUV        |-> FALSE ]

OccVrmlWriter_Parameters == [ shapeRepresentation |-> "Both" ]

\* VrmlAPI_RepresentationOfShape.
VrmlRepresentations == { "Shaded", "WireFrame", "Both" }

\* The property groups the user may hold: every property takes its default
\* or another value of its type.  An enumeration property stores the int of
\* the enumerator and valueAs<E>() casts it back, so an enumerator is written
\* by its name on both sides.
OccStepReader_PropertyGroups ==
    [ type                         : { "OccStepReader" },
      productContext               : { "Both", "Design" },
      assemblyLevel                : { "All", "Shape" },
      preferredShapeRepresentation : { "All", "AdvancedBRep" },
      readShapeAspect              : BOOLEAN,
      readSubShapesNames           : BOOLEAN,
      encoding                     : { "UTF8", "ANSI" } ]

OccStepWriter_PropertyGroups ==
    [ type                : { "OccStepWriter" },
      schema              : { "AP214_CD", "AP203" },
      lengthUnit          : { "Millimeter", "Inch" },
      assemblyMode        : { "Skip", "On" },
      freeVertexMode      : { "Compound", "Single" },
      writePCurves        : BOOLEAN,
      writeSubShapesNames : BOOLEAN ]

OccGltfWriter_PropertyGroups ==
    [ type                 : { "OccGltfWriter" },
      coordinatesConverter : { "Undefined", "Zup" },
      transformationFormat : { "Compact", "Mat4", "TRS" },
      format               : { "Binary", "Json" },
      forceExportUV        : BOOLEAN ]

OccVrmlWriter_PropertyGroups ==
    [ type                : { "OccVrmlWriter" },
      shapeRepresentation : VrmlRepresentations ]

PropertyGroups ==
    OccStepReader_PropertyGroups \cup OccStepWriter_PropertyGroups
        \cup OccGltfWriter_PropertyGroups \cup OccVrmlWriter_PropertyGroups

\* A null PropertyGroup pointer.
NullGroup == [ type |-> "null" ]

PropertyNames(group) == DOMAIN group \ { "type" }

\* OccStepReader::Properties::restoreDefaults.
OccStepReader_restoreDefaults(group) ==
    LET params == OccStepReader_Parameters
    IN  [ group EXCEPT !.productContext = params.productContext,
                       !.assemblyLevel = params.assemblyLevel,
                       !.readShapeAspect = params.readShapeAspect,
                       !.readSubShapesNames = params.readSubShapesNames,
                       !.encoding = params.encoding ]

\* OccStepWriter::Properties::restoreDefaults.
OccStepWriter_restoreDefaults(group) ==
    LET params == OccStepWriter_Parameters
    IN  [ group EXCEPT !.schema = params.schema,
                       !.lengthUnit = params.lengthUnit,
                       !.assemblyMode = params.assemblyMode,
                       !.freeVertexMode = params.freeVertexMode,
                       !.writePCurves = params.writeParametricCurves,
                       !.writeSubShapesNames = params.writeSubShapesNames ]

\* OccGltfWriter::Properties::restoreDefaults.
OccGltfWriter_restoreDefaults(group) ==
    LET defaults == OccGltfWriter_Parameters
    IN  [ group EXCEPT !.coordinatesConverter = defaults.coordinatesConverter,
                       !.transformationFormat = defaults.transformationFormat,
                       !.format = defaults.format,
                       !.forceExportUV = defaults.forceExportUV ]

\* OccVrmlWriter::Properties::restoreDefaults.
OccVrmlWriter_restoreDefaults(group) ==
    LET params == OccVrmlWriter_Parameters
    IN  [ group EXCEPT !.shapeRepresentation = params.shapeRepresentation ]

\* PropertyGroup::restoreDefaults, dispatched on the dynamic type.
restoreDefaults(group) ==
    CASE group.type = "OccStepReader" -> OccStepReader_restoreDefaults(group)
      [] group.type = "OccStepWriter" -> OccStepWriter_restoreDefaults(group)
      [] group.type = "OccGltfWriter" -> OccGltfWriter_restoreDefaults(group)
      [] group.type = "OccVrmlWriter" -> OccVrmlWriter_restoreDefaults(group)

\* Mutant: readSubShapesNames is not copied.
OccStepReader_applyProperties_lessOne(self, group) ==
    IF group.type = "OccStepReader"
    THEN [ self EXCEPT !.m_params =
             [ @ EXCEPT !.productContext = group.productContext,
                        !.assemblyLevel = group.assemblyLevel,
                        !.preferredShapeRepresentation = group.preferredShapeRepresentation,
                        !.readShapeAspect = group.readShapeAspect,
                        !.encoding = group.encoding ] ]
    ELSE self

\* OccStepReader::applyProperties: the dynamic_cast yields null for a null
\* group and for a group of another class.
OccStepReader_applyProperties(self, group) ==
    IF group.type = "OccStepReader"
    THEN [ self EXCEPT !.m_params =
             [ productContext               |-> group.productContext,
               assemblyLevel                |-> group.assemblyLevel,
               preferredShapeRepresentation |-> group.preferredShapeRepresentation,
               readShapeAspect              |-> group.readShapeAspect,
               readSubShapesNames           |-> group.readSubShapesNames,
               encoding                     |-> group.encoding ] ]
    ELSE self

\* OccStepWriter::applyProperties.
OccStepWriter_applyProperties(self, group) ==
    IF group.type = "OccStepWriter"
    THEN [ self EXCEPT !.m_params =
             [ schema                |-> group.schema,
               lengthUnit            |-> group.lengthUnit,
               assemblyMode          |-> group.assemblyMode,
               freeVertexMode        |-> group.freeVertexMode,
               writeParametricCurves |-> group.writePCurves,
               writeSubShapesNames   |-> group.writeSubShapesNames ] ]
    ELSE self

\* OccGltfWriter::applyProperties.
OccGltfWriter_applyProperties(self, group) ==
    IF group.type = "OccGltfWriter"
    THEN [ self EXCEPT !.m_params =
             [ coordinatesConverter |-> group.coordinatesConverter,
               transformationFormat |-> group.transformationFormat,
               format               |-> group.format,
               forceExportUV        |-> group.forceExportUV ] ]
    ELSE self

\* OccVrmlWriter::applyProperties: it assigns m_params.shapeRepresentation.
OccVrmlWriter_applyProperties(self, group) ==
    IF group.type = "OccVrmlWriter"
    THEN [ self EXCEPT !.m_params =
             [ shapeRepresentation |-> group.shapeRepresentation ] ]
    ELSE self

\* Reader::applyProperties / Writer::applyProperties, dispatched on the class
\* of the object.
applyProperties(class, self, group) ==
    CASE class = "OccStepReader" -> OccStepReader_applyProperties(self, group)
      [] class = "OccStepWriter" -> OccStepWriter_applyProperties(self, group)
      [] class = "OccGltfWriter" -> OccGltfWriter_applyProperties(self, group)
      [] class = "OccVrmlWriter" -> OccVrmlWriter_applyProperties(self, group)

\* What each property of a group is copied to by applyProperties and reset
\* from by restoreDefaults: the Parameters field of the same meaning.
ParametersOf(group) ==
    CASE group.type = "OccStepReader" ->
           [ productContext               |-> group.productContext,
             assemblyLevel                |-> group.assemblyLevel,
             preferredShapeRepresentation |-> group.preferredShapeRepresentation,
             readShapeAspect              |-> group.readShapeAspect,
             readSubShapesNames           |-> group.readSubShapesNames,
             encoding                     |-> group.encoding ]
      [] group.type = "OccStepWriter" ->
           [ schema                |-> group.schema,
             lengthUnit            |-> group.lengthUnit,
             assemblyMode          |-> group.assemblyMode,
             freeVertexMode        |-> group.freeVertexMode,
             writeParametricCurves |-> group.writePCurves,
             writeSubShapesNames   |-> group.writeSubShapesNames ]
      [] group.type = "OccGltfWriter" ->
           [ coordinatesConverter |-> group.coordinatesConverter,
             transformationFormat |-> group.transformationFormat,
             format               |-> group.format,
             forceExportUV        |-> group.forceExportUV ]
      [] group.type = "OccVrmlWriter" ->
           [ shapeRepresentation |-> group.shapeRepresentation ]

DefaultParameters(class) ==
    CASE class = "OccStepReader" -> OccStepReader_Parameters
      [] class = "OccStepWriter" -> OccStepWriter_Parameters
      [] class = "OccGltfWriter" -> OccGltfWriter_Parameters
      [] class = "OccVrmlWriter" -> OccVrmlWriter_Parameters

\* --------------------------------------------------------- exported items
MaxItems == 2           \* a transfer is handed at most MaxItems application items

\* The documents open in the application, and a null document handle.
IoDocuments == { "docA", "docB" }
NullDocument == "null"

\* The tree nodes of the documents, as << document, node >>: docA has two
\* and docB one.  The label of a node 1 is a shape, that of node 2 is not.
ExportTreeNodes == { << "docA", 1 >>, << "docA", 2 >>, << "docB", 1 >> }

\* The ApplicationItems a transfer may be handed: a document, a tree node of
\* a document, or an item that is neither.
ExportItems ==
    [ doc : IoDocuments, kind : { "Document" }, node : { 0 } ]
    \cup { [ doc |-> n[1], kind |-> "DocumentTreeNode", node |-> n[2] ] : n \in ExportTreeNodes }
    \cup { [ doc |-> NullDocument, kind |-> "Invalid", node |-> 0 ] }

ExportSpans == UNION { [ 1..k -> ExportItems ] : k \in 0..MaxItems }

\* appItem.documentTreeNode().label()
treeNodeLabel(appItem) == << appItem.doc, appItem.node >>

\* XCaf::isShape(label), for the labels of the exported documents.
ExportLabel_isShape(label) == label[2] = 1

\* The kernel writer the last call ran, if it ran one.
NoKernelCall == [ writer |-> "none" ]

\* ------------------------------------------------------------ OccGltfWriter
OccGltfWriter_ctor ==
    [ m_params       |-> OccGltfWriter_Parameters,
      m_document     |-> NullDocument,
      m_seqRootLabel |-> << >> ]

\* Mutant: the label of a tree node is appended whatever its document.
RECURSIVE OccGltfWriter_transferLoop_anyDocument(_, _, _)
OccGltfWriter_transferLoop_anyDocument(self, spanAppItem, n) ==
    IF n = 0 THEN self
    ELSE LET w == OccGltfWriter_transferLoop_anyDocument(self, spanAppItem, n - 1)
             appItem == spanAppItem[n]
         IN  IF appItem.kind = "Document" /\ w.m_document = NullDocument
             THEN [ w EXCEPT !.m_document = appItem.doc ]
             ELSE IF appItem.kind = "DocumentTreeNode"
             THEN LET w1 == IF w.m_document = NullDocument
                            THEN [ w EXCEPT !.m_document = appItem.doc ]
                            ELSE w
                  IN  [ w1 EXCEPT !.m_seqRootLabel = Append(@, treeNodeLabel(appItem)) ]
             ELSE w

\* The loop of OccGltfWriter::transfer over spanAppItem[1..n].
RECURSIVE OccGltfWriter_transferLoop(_, _, _)
OccGltfWriter_transferLoop(self, spanAppItem, n) ==
    IF n = 0 THEN self
    ELSE LET w == OccGltfWriter_transferLoop(self, spanAppItem, n - 1)
             appItem == spanAppItem[n]
         IN  IF appItem.kind = "Document" /\ w.m_document = NullDocument
             THEN [ w EXCEPT !.m_document = appItem.doc ]
             ELSE IF appItem.kind = "DocumentTreeNode"
             THEN LET w1 == IF w.m_document = NullDocument
                            THEN [ w EXCEPT !.m_document = appItem.doc ]
                            ELSE w
                  IN  IF appItem.doc = w1.m_document
                      THEN [ w1 EXCEPT !.m_seqRootLabel = Append(@, treeNodeLabel(appItem)) ]
                      ELSE w1
             ELSE w

\* Mutant: the document and the root labels of the writer are not discarded
\* first.
OccGltfWriter_transfer_keepDocument(self, spanAppItem) ==
    LET w == OccGltfWriter_transferLoop(self, spanAppItem, Len(spanAppItem))
    IN  [ self |-> w, result |-> w.m_document # NullDocument, progress |-> << >>,
          kernel |-> NoKernelCall ]

\* OccGltfWriter::transfer: the writer afterwards, and the value returned.
OccGltfWriter_transfer(self, spanAppItem) ==
    LET w == OccGltfWriter_transferLoop(
                 [ self EXCEPT !.m_document = NullDocument, !.m_seqRootLabel = << >> ],
                 spanAppItem, Len(spanAppItem))
    IN  [ self |-> w, result |-> w.m_document # NullDocument, progress |-> << >>,
          kernel |-> NoKernelCall ]

\* RWGltf_CafWriter(file, isBinary): a kernel glTF writer as constructed, with
\* the kernel's own transformation format, coordinate system conversion and
\* UV export settings.
RWGltf_CafWriter(isBinary) ==
    [ writer               |-> "RWGltf_CafWriter",
      isBinary             |-> isBinary,
      transformationFormat |-> "Compact",
      coordinatesConverter |-> "Undefined",
      forceExportUV        |-> FALSE ]

\* OccGltfWriter::writeFile.  performed is what the kernel's Perform returns.
OccGltfWriter_writeFile(self, performed) ==
    IF self.m_document = NullDocument
    THEN [ self |-> self, result |-> FALSE, progress |-> << >>, kernel |-> NoKernelCall ]
    ELSE LET isBinary == self.m_params.format = "Binary"
             writer == RWGltf_CafWriter(isBinary)
         IN  [ self     |-> self,
               result   |-> performed,
               progress |-> << >>,
               kernel   |-> [ writer   |-> writer,
                              document |-> self.m_document,
                              whole    |-> self.m_seqRootLabel = << >>,
                              labels   |-> self.m_seqRootLabel ] ]

\* ------------------------------------------------------------ OccVrmlWriter
\* A null VrmlData_Scene pointer.
NullVrmlScene == [ isNull |-> TRUE, nodes |-> << >>, shaded |-> FALSE, wireframe |-> FALSE ]

\* An OccVrmlWriter as constructed; rep is the value its member
\* m_shapeRepresentation starts with.
OccVrmlWriter_ctor(rep) ==
    [ m_params              |-> OccVrmlWriter_Parameters,
      m_shapeRepresentation |-> rep,
      m_scene               |-> NullVrmlScene ]

\* What an int receives from the double 0.0 / 0.0 (the conversion is
\* undefined; these are the values a build produces).
NaNToInt == { (-2147483647) - 1, 0 }

\* MathUtils::mappedValue(val, omin, omax, nmin, nmax), received as the int
\* of TaskProgress::setValue.  nan is the int received when omin = omax.
MathUtils_mappedValue(val, omin, omax, nmin, nmax, nan) ==
    IF omax = omin THEN nan
    ELSE ((val - omin) * (nmax - nmin)) \div (omax - omin) + nmin

\* The loop of OccVrmlWriter::transfer over spanAppItem[1..n]: the nodes the
\* converter holds and the progress values set.
RECURSIVE OccVrmlWriter_transferLoop(_, _, _)
OccVrmlWriter_transferLoop(spanAppItem, n, nan) ==
    IF n = 0 THEN [ nodes |-> << >>, progress |-> << >> ]
    ELSE LET c == OccVrmlWriter_transferLoop(spanAppItem, n - 1, nan)
             appItem == spanAppItem[n]
             label == treeNodeLabel(appItem)
             nodes ==
                 IF appItem.kind = "Document"
                 THEN Append(c.nodes, << appItem.doc, 0 >>)
                 ELSE IF appItem.kind = "DocumentTreeNode" /\ ExportLabel_isShape(label)
                 THEN Append(c.nodes, label)
                 ELSE c.nodes
             index == n - 1
         IN  [ nodes    |-> nodes,
               progress |-> Append(c.progress,
                                   MathUtils_mappedValue(index, 0, Len(spanAppItem) - 1,
                                                         0, 100, nan)) ]

\* OccVrmlWriter::transfer.
OccVrmlWriter_transfer(self, spanAppItem, nan) ==
    LET c == OccVrmlWriter_transferLoop(spanAppItem, Len(spanAppItem), nan)
        rep == self.m_shapeRepresentation
    IN  [ self     |-> [ self EXCEPT !.m_scene =
                           [ isNull    |-> FALSE,
                             nodes     |-> c.nodes,
                             shaded    |-> rep = "Shaded" \/ rep = "Both",
                             wireframe |-> rep = "WireFrame" \/ rep = "Both" ] ],
          result   |-> TRUE,
          progress |-> c.progress,
          kernel   |-> NoKernelCall ]

\* Mutant: the stream is opened without looking at m_scene.
OccVrmlWriter_writeFile_noGuard(self, opened, good) ==
    IF opened
    THEN [ self |-> self, result |-> good, progress |-> << >>,
           kernel |-> [ writer |-> "ofstream", scene |-> self.m_scene ] ]
    ELSE [ self |-> self, result |-> FALSE, progress |-> << >>,
           kernel |-> [ writer |-> "ofstream", scene |-> NullVrmlScene ] ]

\* OccVrmlWriter::writeFile.  opened tells whether the output stream could
\* be opened, good whether it is good once written and closed.
OccVrmlWriter_writeFile(self, opened, good) ==
    IF self.m_scene.isNull
    THEN [ self |-> self, result |-> FALSE, progress |-> << >>, kernel |-> NoKernelCall ]
    ELSE IF opened
    THEN [ self |-> self, result |-> good, progress |-> << >>,
           kernel |-> [ writer |-> "ofstream", scene |-> self.m_scene ] ]
    ELSE [ self |-> self, result |-> FALSE, progress |-> << >>,
           kernel |-> [ writer |-> "ofstream", scene |-> NullVrmlScene ] ]

\* ------------------------------------------- OccStepReader / OccStepWriter
NumThreads == 2         \* threads 1..NumThreads run STEP operations

ThreadIds == 1..NumThreads

\* Interface_Static: the kernel's global static variables, before any
\* operation runs.
Interface_Static_Init ==
    ("read.step.product.context" :> "Both")
    @@ ("read.step.assembly.level" :> "All")
    @@ ("read.step.shape.repr" :> "All")
    @@ ("read.step.shape.aspect" :> 1)
    @@ ("read.stepcaf.subshapes.name" :> 0)
    @@ ("read.step.codepage" :> "UTF8")
    @@ ("write.step.schema" :> "AP214_CD")
    @@ ("write.step.unit" :> "MM")
    @@ ("write.step.assembly" :> "Skip")
    @@ ("write.step.vertex.mode" :> "Compound")
    @@ ("write.surfacecurve.mode" :> 1)
    @@ ("write.stepcaf.subshapes.name" :> 0)

\* OccStaticVariablesRollback: r is [statics, saved], the static variables
\* and the previous values the rollback object remembers.
OccStaticVariablesRollback_change(r, key, value) ==
    [ statics |-> [ r.statics EXCEPT ![key] = value ],
      saved   |-> Append(r.saved, << key, r.statics[key] >>) ]

\* ~OccStaticVariablesRollback: every changed variable gets its previous
\* value back, the last changed first.
RECURSIVE OccStaticVariablesRollback_dtor(_, _)
OccStaticVariablesRollback_dtor(values, saved) ==
    IF saved = << >> THEN values
    ELSE LET last == saved[Len(saved)]
         IN  OccStaticVariablesRollback_dtor([ values EXCEPT ![last[1]] = last[2] ],
                                             SubSeq(saved, 1, Len(saved) - 1))

\* fnOccEncoding, for the encodings of the model.
fnOccEncoding(code) ==
    CASE code = "UTF8" -> "UTF8"
      [] code = "ANSI" -> "ANSI"

\* OccCommon::toCafString(lengthUnit).
OccCommon_toCafString(lengthUnit) ==
    CASE lengthUnit = "Millimeter" -> "MM"
      [] lengthUnit = "Inch" -> "INCH"

OccStepReader_ctor == [ m_params |-> OccStepReader_Parameters ]

\* A STEPCAFControl_Writer holds a STEP model; populated tells whether the
\* model holds transferred items.
OccStepWriter_ctor ==
    [ m_params |-> OccStepWriter_Parameters, m_writer |-> [ populated |-> FALSE ] ]

\* OccStepReader::changeStaticVariables: the reader (unchanged) and the
\* rollback afterwards.
OccStepReader_changeStaticVariables(self, rollback) ==
    LET r1 == OccStaticVariablesRollback_change(
                  rollback, "read.step.product.context", self.m_params.productContext)
        r2 == OccStaticVariablesRollback_change(
                  r1, "read.step.assembly.level", self.m_params.assemblyLevel)
        r3 == OccStaticVariablesRollback_change(
                  r2, "read.step.shape.repr", self.m_params.preferredShapeRepresentation)
        r4 == OccStaticVariablesRollback_change(
                  r3, "read.step.shape.aspect", IF self.m_params.readShapeAspect THEN 1 ELSE 0)
        r5 == OccStaticVariablesRollback_change(
                  r4, "read.stepcaf.subshapes.name",
                  IF self.m_params.readSubShapesNames THEN 1 ELSE 0)
        r6 == OccStaticVariablesRollback_change(
                  r5, "read.step.codepage", fnOccEncoding(self.m_params.encoding))
    IN  [ self |-> self, rollback |-> r6 ]

\* OccStepWriter::changeStaticVariables: the writer and the rollback
\* afterwards.  Model(true) gives the writer a new, empty STEP model.
OccStepWriter_changeStaticVariables(self, rollback) ==
    LET previousSchema == rollback.statics["write.step.schema"]
        r1 == OccStaticVariablesRollback_change(
                  rollback, "write.step.schema", self.m_params.schema)
        w  == IF self.m_params.schema # previousSchema
              THEN [ self EXCEPT !.m_writer = [ populated |-> FALSE ] ]
              ELSE self
        r2 == OccStaticVariablesRollback_change(
                  r1, "write.step.unit", OccCommon_toCafString(self.m_params.lengthUnit))
        r3 == OccStaticVariablesRollback_change(
                  r2, "write.step.assembly", self.m_params.assemblyMode)
        r4 == OccStaticVariablesRollback_change(
                  r3, "write.step.vertex.mode", self.m_params.freeVertexMode)
        r5 == OccStaticVariablesRollback_change(
                  r4, "write.surfacecurve.mode",
                  IF self.m_params.writeParametricCurves THEN 1 ELSE 0)
        r6 == OccStaticVariablesRollback_change(
                  r5, "write.stepcaf.subshapes.name",
                  IF self.m_params.writeSubShapesNames THEN 1 ELSE 0)
    IN  [ self |-> w, rollback |-> r6 ]

changeStaticVariables(class, self, rollback) ==
    IF class = "OccStepReader"
    THEN OccStepReader_changeStaticVariables(self, rollback)
    ELSE OccStepWriter_changeStaticVariables(self, rollback)

\* The operations of each class that change the static variables.
StepOperations(class) ==
    IF class = "OccStepReader" THEN { "readFile", "transfer" }
    ELSE { "transfer", "writeFile" }

\* Mutant: rollback is declared first, so the lock is released first.
ScopeExitOrder_lockFirst == << "cafLock", "rollback" >>

\* The locals of readFile, transfer and writeFile are declared cafLock first,
\* rollback second; at the end of the scope they are destroyed in the
\* reverse order.
ScopeExitOrder == << "rollback", "cafLock" >>

\* The parameters an object may hold when its operations run: the defaults,
\* or another value in every field.
StepParameters(class) ==
    LET groups == IF class = "OccStepReader" THEN OccStepReader_PropertyGroups
                  ELSE OccStepWriter_PropertyGroups
        defaults == DefaultParameters(class)
    IN  { p \in { ParametersOf(g) : g \in groups } :
            \/ p = defaults
            \/ \A f \in DOMAIN p : p[f] # defaults[f] }

\* A thread that owns one reader or writer: the operation it runs and where
\* it stands in it, the previous values its rollback holds, the static
\* variables its kernel call ran under, and what its last Write wrote.
NoStatics == << >>

StepThread(class, params) ==
    [ class       |-> class,
      self        |-> IF class = "OccStepReader"
                      THEN [ OccStepReader_ctor EXCEPT !.m_params = params ]
                      ELSE [ OccStepWriter_ctor EXCEPT !.m_params = params ],
      pc          |-> "idle",
      op          |-> "none",
      saved       |-> << >>,
      observed    |-> NoStatics,
      transferred |-> FALSE,
      written     |-> "nothing" ]

StepThreads ==
    UNION { { StepThread(class, params) : params \in StepParameters(class) } :
            class \in { "OccStepReader", "OccStepWriter" } }

\* ------------------------------------------------------------ display modes
\* GraphicsEntityDriver::displayModes() of each driver.
GraphicsShapeEntityDriver_displayModes ==
    { "DisplayMode_Wireframe", "DisplayMode_HiddenLineRemoval",
      "DisplayMode_Shaded", "DisplayMode_ShadedWithFaceBoundary" }

GraphicsMeshEntityDriver_displayModes ==
    { "MeshVS_DMF_WireFrame", "MeshVS_DMF_Shading", "MeshVS_DMF_Shrink" }

displayModes(driver) ==
    IF driver = ShapeDriver THEN GraphicsShapeEntityDriver_displayModes
    ELSE GraphicsMeshEntityDriver_displayModes

\* The value -1 of Enumeration::Value, a member of no driver's displayModes().
NoDisplayMode == "-1"

\* The entities of the scene whose display mode is changed.
DisplayedEntities == { "A", "B" }

\* What a GraphicsScene holds of hidden-line drawing: its default drawer's
\* type of HLR and draw-hidden-line flag, and the computed mode of its views.
DisplayScene_ctor ==
    [ typeOfHLR |-> "Prs3d_TOH_NotSet", drawHiddenLine |-> FALSE, computedMode |-> FALSE ]

\* GraphicsScene::hiddenLineDrawingOn.
GraphicsScene_hiddenLineDrawingOn(scene) == scene.drawHiddenLine

\* The display attributes of the object createEntity gives an entity: the
\* class of the object, its display mode, its face boundary flag and, in
\* iteration order, the entries of its custom aspects map (none before the
\* object is presented).
GraphicsShapeEntityDriver_createEntity_display ==
    [ m_driverPtr |-> ShapeDriver, m_aisObject |-> "XCAFPrs_AISObject",
      displayMode |-> "AIS_Shaded", faceBoundaryDraw |-> TRUE, customAspects |-> << >> ]

GraphicsMeshEntityDriver_createEntity_display ==
    [ m_driverPtr |-> MeshDriver, m_aisObject |-> "MeshVS_Mesh",
      displayMode |-> "MeshVS_DMF_Shading", faceBoundaryDraw |-> FALSE,
      customAspects |-> << >> ]

\* The entity the shape driver creates for a label that is no shape: it has
\* no object.
GraphicsShapeEntityDriver_createEntity_noObject ==
    [ m_driverPtr |-> ShapeDriver, m_aisObject |-> "null",
      displayMode |-> "none", faceBoundaryDraw |-> FALSE, customAspects |-> << >> ]

createEntity_display(driver) ==
    IF driver = ShapeDriver THEN GraphicsShapeEntityDriver_createEntity_display
    ELSE GraphicsMeshEntityDriver_createEntity_display

\* GraphicsEntity::setDisplayMode / GraphicsEntity::displayMode.
GraphicsEntity_setDisplayMode(entity, mode) == [ entity EXCEPT !.displayMode = mode ]
GraphicsEntity_displayMode(entity) == entity.displayMode

\* throwIf_differentDriver and throwIf_invalidDisplayMode: TRUE when the
\* call throws std::invalid_argument.
throwIf_differentDriver(driver, entity) == entity.m_driverPtr # driver
throwIf_invalidDisplayMode(driver, mode) == mode \notin displayModes(driver)

\* The std::invalid_argument each of them throws, by its what().
InvalidDriver == "std::invalid_argument: Invalid driver for graphics entity"
InvalidDisplayMode == "std::invalid_argument: Invalid display mode"

\* Mutant: the face boundary flag of the object is left as it is.
GraphicsShapeEntityDriver_applyDisplayMode_keepFaceBounds(d, e, mode) ==
    IF throwIf_differentDriver(ShapeDriver, d.entities[e])
    THEN [ display |-> d, result |-> InvalidDriver ]
    ELSE IF throwIf_invalidDisplayMode(ShapeDriver, mode)
    THEN [ display |-> d, result |-> InvalidDisplayMode ]
    ELSE IF mode = "DisplayMode_HiddenLineRemoval"
    THEN [ display |-> [ d EXCEPT !.scene = [ typeOfHLR      |-> "Prs3d_TOH_PolyAlgo",
                                              drawHiddenLine |-> TRUE,
                                              computedMode   |-> TRUE ] ],
           result |-> "ok" ]
    ELSE LET aisDispMode == IF mode = "DisplayMode_Wireframe"
                            THEN "AIS_WireFrame" ELSE "AIS_Shaded"
             entity == d.entities[e]
             e1 == IF GraphicsEntity_displayMode(entity) # aisDispMode
                   THEN GraphicsEntity_setDisplayMode(entity, aisDispMode)
                   ELSE entity
         IN  [ display |-> [ scene    |-> [ typeOfHLR      |-> "Prs3d_TOH_NotSet",
                                            drawHiddenLine |-> FALSE,
                                            computedMode   |-> FALSE ],
                             entities |-> [ d.entities EXCEPT ![e] = e1 ] ],
               result |-> "ok" ]

\* GraphicsShapeEntityDriver::applyDisplayMode on entity e of d = [scene,
\* entities]: the scene and its entities afterwards, and whether it threw.
GraphicsShapeEntityDriver_applyDisplayMode(d, e, mode) ==
    IF throwIf_differentDriver(ShapeDriver, d.entities[e])
    THEN [ display |-> d, result |-> InvalidDriver ]
    ELSE IF throwIf_invalidDisplayMode(ShapeDriver, mode)
    THEN [ display |-> d, result |-> InvalidDisplayMode ]
    ELSE IF mode = "DisplayMode_HiddenLineRemoval"
    THEN [ display |-> [ d EXCEPT !.scene = [ typeOfHLR      |-> "Prs3d_TOH_PolyAlgo",
                                              drawHiddenLine |-> TRUE,
                                              computedMode   |-> TRUE ] ],
           result |-> "ok" ]
    ELSE LET aisDispMode == IF mode = "DisplayMode_Wireframe"
                            THEN "AIS_WireFrame" ELSE "AIS_Shaded"
             showFaceBounds == mode = "DisplayMode_ShadedWithFaceBoundary"
             entity == d.entities[e]
             e1 == IF GraphicsEntity_displayMode(entity) # aisDispMode
                   THEN GraphicsEntity_setDisplayMode(entity, aisDispMode)
                   ELSE entity
             e2 == IF e1.faceBoundaryDraw # showFaceBounds
                   THEN [ e1 EXCEPT !.faceBoundaryDraw = showFaceBounds ]
                   ELSE e1
         IN  [ display |-> [ scene    |-> [ typeOfHLR      |-> "Prs3d_TOH_NotSet",
                                            drawHiddenLine |-> FALSE,
                                            computedMode   |-> FALSE ],
                             entities |-> [ d.entities EXCEPT ![e] = e2 ] ],
               result |-> "ok" ]

\* GraphicsShapeEntityDriver::currentDisplayMode: the mode returned, or the
\* exception it throws.
GraphicsShapeEntityDriver_currentDisplayMode(d, e) ==
    LET entity == d.entities[e]
        displayMode == GraphicsEntity_displayMode(entity)
    IN  IF throwIf_differentDriver(ShapeDriver, entity) THEN InvalidDriver
        ELSE IF GraphicsScene_hiddenLineDrawingOn(d.scene)
        THEN "DisplayMode_HiddenLineRemoval"
        ELSE IF displayMode = "AIS_WireFrame" THEN "DisplayMode_Wireframe"
        ELSE IF displayMode = "AIS_Shaded"
        THEN IF entity.faceBoundaryDraw THEN "DisplayMode_ShadedWithFaceBoundary"
             ELSE "DisplayMode_Shaded"
        ELSE NoDisplayMode

\* Mutant: the mode is checked before the driver.
GraphicsMeshEntityDriver_applyDisplayMode_modeFirst(d, e, mode) ==
    IF throwIf_invalidDisplayMode(MeshDriver, mode)
    THEN [ display |-> d, result |-> InvalidDisplayMode ]
    ELSE IF throwIf_differentDriver(MeshDriver, d.entities[e])
    THEN [ display |-> d, result |-> InvalidDriver ]
    ELSE [ display |-> [ d EXCEPT !.entities[e] = GraphicsEntity_setDisplayMode(@, mode) ],
           result |-> "ok" ]

\* GraphicsMeshEntityDriver::applyDisplayMode.
GraphicsMeshEntityDriver_applyDisplayMode(d, e, mode) ==
    IF throwIf_differentDriver(MeshDriver, d.entities[e])
    THEN [ display |-> d, result |-> InvalidDriver ]
    ELSE IF throwIf_invalidDisplayMode(MeshDriver, mode)
    THEN [ display |-> d, result |-> InvalidDisplayMode ]
    ELSE [ display |-> [ d EXCEPT !.entities[e] = GraphicsEntity_setDisplayMode(@, mode) ],
           result |-> "ok" ]

\* GraphicsMeshEntityDriver::currentDisplayMode.
GraphicsMeshEntityDriver_currentDisplayMode(d, e) ==
    IF throwIf_differentDriver(MeshDriver, d.entities[e]) THEN InvalidDriver
    ELSE GraphicsEntity_displayMode(d.entities[e])

applyDisplayMode(driver, d, e, mode) ==
    IF driver = ShapeDriver THEN GraphicsShapeEntityDriver_applyDisplayMode(d, e, mode)
    ELSE GraphicsMeshEntityDriver_applyDisplayMode(d, e, mode)

currentDisplayMode(driver, d, e) ==
    IF driver = ShapeDriver THEN GraphicsShapeEntityDriver_currentDisplayMode(d, e)
    ELSE GraphicsMeshEntityDriver_currentDisplayMode(d, e)

\* GraphicsShapeEntityDriver::properties and
\* GraphicsMeshEntityDriver::properties: the class of the group returned, or
\* the exception thrown.
GraphicsShapeEntityDriver_properties(d, e) ==
    IF throwIf_differentDriver(ShapeDriver, d.entities[e]) THEN InvalidDriver
    ELSE "GraphicsEntityBasePropertyGroup"

GraphicsMeshEntityDriver_properties(d, e) ==
    IF throwIf_differentDriver(MeshDriver, d.entities[e]) THEN InvalidDriver
    ELSE "GraphicsMeshEntityDriver::EntityProperties"

driverProperties(driver, d, e) ==
    IF driver = ShapeDriver THEN GraphicsShapeEntityDriver_properties(d, e)
    ELSE GraphicsMeshEntityDriver_properties(d, e)

\* ------------------------------------------------------------ custom colors
\* Shapes are told apart by a number: the located shape of a tree node by
\* the node's id, a compound that is the shape of no node by a larger one.
SubNodes(root) == { root + k * MaxEntities : k \in 1..MaxFaces }

BaseShape(root, j) == j * 100 + root

\* Quantity_Color values: the color of a drawer nobody set yet, and the
\* surface colors a label can have ("none": the label has no surface color).
InitialColor == "Quantity_NOC_GRAY"
SurfaceColors == { "Quantity_NOC_RED", "Quantity_NOC_BLUE" }

\* A DocumentTreeNode as handleColorChanged reads it: whether it is valid,
\* XCAFDoc_ColorTool::GetColor of its label, and its located shape.
DocumentTreeNode(treeNodeId, color) ==
    [ isValid |-> treeNodeId # 0, color |-> color, shape |-> treeNodeId ]

\* AIS_ColoredShape::CustomAspectsMap of the presented object of entity
\* root: each entry has the shape it is bound to, the SOLID sub-shapes of
\* that shape and its custom color.  The map is empty, binds the first
\* sub-node's solid alone, binds one or two compounds, or binds both a
\* solid and a compound holding it.
CustomAspectsMaps(root) ==
    LET first == root + MaxEntities
        entry(shape, solids) == [ key |-> shape, solids |-> solids, color |-> InitialColor ]
    IN  { << >>,
          << entry(first, { first }) >>,
          << entry(BaseShape(root, 1), SubNodes(root)) >>,
          << entry(BaseShape(root, 1), { first }), entry(BaseShape(root, 2), SubNodes(root)) >>,
          << entry(first, { first }), entry(BaseShape(root, 1), SubNodes(root)) >> }

\* Mutant: the last bound base shape holding the solid is recolored.
GraphicsShapeEntityDriver_handleColorChanged_lastBase(d, e, docTreeNode) ==
    LET entity == d.entities[e]
        map == entity.customAspects
        direct == { i \in DOMAIN map : map[i].key = docTreeNode.shape }
        shared == { i \in DOMAIN map : docTreeNode.shape \in map[i].solids }
        fnChangeColor(i) ==
            [ d EXCEPT !.entities[e].customAspects[i].color = docTreeNode.color ]
    IN  IF throwIf_differentDriver(ShapeDriver, entity)
        THEN [ display |-> d, result |-> InvalidDriver ]
        ELSE IF ~docTreeNode.isValid THEN [ display |-> d, result |-> "ok" ]
        ELSE IF entity.m_aisObject # "XCAFPrs_AISObject" THEN [ display |-> d, result |-> "ok" ]
        ELSE IF docTreeNode.color = "none" THEN [ display |-> d, result |-> "ok" ]
        ELSE IF direct # {}
        THEN [ display |-> fnChangeColor(SetMin(direct)), result |-> "ok" ]
        ELSE IF shared # {}
        THEN [ display |-> fnChangeColor(SetMax(shared)), result |-> "ok" ]
        ELSE [ display |-> d, result |-> "ok" ]

\* GraphicsShapeEntityDriver::handleColorChanged on entity e of d: the scene
\* and its entities afterwards, and whether it threw.
GraphicsShapeEntityDriver_handleColorChanged(d, e, docTreeNode) ==
    LET entity == d.entities[e]
        map == entity.customAspects
        \* CustomAspectsMap().IsBound(shape)
        direct == { i \in DOMAIN map : map[i].key = docTreeNode.shape }
        \* the entries with a SOLID sub-shape that IsSame(shape)
        shared == { i \in DOMAIN map : docTreeNode.shape \in map[i].solids }
        fnChangeColor(i) ==
            [ d EXCEPT !.entities[e].customAspects[i].color = docTreeNode.color ]
    IN  IF throwIf_differentDriver(ShapeDriver, entity)
        THEN [ display |-> d, result |-> InvalidDriver ]
        ELSE IF ~docTreeNode.isValid THEN [ display |-> d, result |-> "ok" ]
        \* Handle_AIS_ColoredShape::DownCast is null
        ELSE IF entity.m_aisObject # "XCAFPrs_AISObject" THEN [ display |-> d, result |-> "ok" ]
        ELSE IF docTreeNode.color = "none" THEN [ display |-> d, result |-> "ok" ]
        ELSE IF direct # {}
        THEN [ display |-> fnChangeColor(SetMin(direct)), result |-> "ok" ]
        ELSE IF shared # {}
        THEN [ display |-> fnChangeColor(SetMin(shared)), result |-> "ok" ]
        ELSE [ display |-> d, result |-> "ok" ]

\* The entity roots of the displayed entities.
displayedRoot(e) == IF e = "A" THEN 1 ELSE 2

\* The scenes of two attached entities, each created by either driver; a
\* shape object binds a solid and a compound holding it.
DisplayScenes ==
    { [ scene |-> DisplayScene_ctor,
        entities |-> [ e \in DisplayedEntities |->
            IF drv[e] = ShapeDriver
            THEN [ createEntity_display(drv[e]) EXCEPT !.customAspects =
                     CHOOSE map \in CustomAspectsMaps(displayedRoot(e)) :
                         Len(map) = 2 /\ map[1].key = displayedRoot(e) + MaxEntities ]
            ELSE createEntity_display(drv[e]) ] ] :
      drv \in [ DisplayedEntities -> Drivers ] }

NoDisplay == [ scene |-> DisplayScene_ctor, entities |-> << >> ]

\* GraphicsMeshEntityDriver::handleColorChanged: the mesh driver does nothing
\* about colors.
GraphicsMeshEntityDriver_handleColorChanged(d, e, docTreeNode) ==
    IF throwIf_differentDriver(MeshDriver, d.entities[e])
    THEN [ display |-> d, result |-> InvalidDriver ]
    ELSE [ display |-> d, result |-> "ok" ]

handleColorChanged(driver, d, e, docTreeNode) ==
    IF driver = ShapeDriver THEN GraphicsShapeEntityDriver_handleColorChanged(d, e, docTreeNode)
    ELSE GraphicsMeshEntityDriver_handleColorChanged(d, e, docTreeNode)

\* GuiDocument::onDocumentColorChanged, with the objects of the entities of
\* the side-table held in d under their addresses: the objects afterwards,
\* the driver the notification went to ("none" without an item) and whether
\* it threw.  color is what the color tool returns for the label of the node.
onDocumentColorChanged(g, d, treeNodeId, color) ==
    LET entityTreeNodeId == nodeRoot(treeNodeId)
        gfxItem == findGraphicsItem(g, entityTreeNodeId)
    IN  IF gfxItem # 0
        THEN LET gfxEntity == g.m_vecGraphicsItem[gfxItem].graphicsEntity
                 r == handleColorChanged(gfxEntity.m_driverPtr, d, gfxEntity.m_aisObject[2],
                                         DocumentTreeNode(treeNodeId, color))
             IN  [ display |-> r.display, driver |-> gfxEntity.m_driverPtr,
                   result |-> r.result ]
        ELSE [ display |-> d, driver |-> "none", result |-> "ok" ]

\* The objects of the entities of the side-table of g, under their
\* addresses, each shape object with any of the custom aspects maps of its
\* entity; address 0 holds an entity of the shape driver without object.
ColorScenes(g) ==
    LET items == g.m_vecGraphicsItem
        addrs == { items[i].graphicsEntity.m_aisObject[2] : i \in DOMAIN items }
        itemAt(a) == items[CHOOSE i \in DOMAIN items :
                              items[i].graphicsEntity.m_aisObject[2] = a]
        objects(a) ==
            IF a = 0 THEN { GraphicsShapeEntityDriver_createEntity_noObject }
            ELSE IF itemAt(a).graphicsEntity.m_driverPtr = ShapeDriver
            THEN { [ createEntity_display(ShapeDriver) EXCEPT !.customAspects = map ] :
                     map \in CustomAspectsMaps(itemAt(a).entityTreeNodeId) }
            ELSE { createEntity_display(MeshDriver) }
        all == UNION { objects(a) : a \in addrs \cup { 0 } }
    IN  { [ scene |-> DisplayScene_ctor, entities |-> f ] :
            f \in { h \in [ addrs \cup { 0 } -> all ] :
                      \A a \in addrs \cup { 0 } : h[a] \in objects(a) } }

\* The last call on a reader, a writer or a display driver: its name, the
\* object it was made on, its argument, what it returned and the progress
\* values it set.
IoCall(op, target, arg, result, progress) ==
    [ op |-> op, target |-> target, arg |-> arg, result |-> result, progress |-> progress ]

NoCall == IoCall("none", "none", "none", "none", << >>)

\* One object of each reader and writer class, as constructed.
IoObjects(rep) ==
    [ OccStepReader |-> OccStepReader_ctor,
      OccStepWriter |-> OccStepWriter_ctor,
      OccGltfWriter |-> OccGltfWriter_ctor,
      OccVrmlWriter |-> OccVrmlWriter_ctor(rep) ]

\* No reader or writer is in use, no thread runs and nothing is displayed.
IoConstructed ==
    /\ properties = NullGroup
    /\ io = IoObjects("Both")
    /\ kernel = NoKernelCall
    /\ statics = Interface_Static_Init
    /\ cafLock = 0
    /\ threads = << >>
    /\ display = NoDisplay
    /\ call = NoCall
    /\ lastTransfer = "never"

\* ---------------------------------------------------------- state machine
\* The GuiDocument object, as the record the operations above work on.
Self ==
    [ m_vecGraphicsItem     |-> m_vecGraphicsItem,
      m_gpxBoundingBox      |-> m_gpxBoundingBox,
      m_gfxScene            |-> m_gfxScene,
      m_v3dView             |-> m_v3dView,
      m_viewTrihedronMode   |-> m_viewTrihedronMode,
      m_viewTrihedronCorner |-> m_viewTrihedronCorner,
      m_aisViewCube         |-> m_aisViewCube,
      m_cameraAnimation     |-> m_cameraAnimation,
      emitted               |-> << >> ]

Becomes(g) ==
    /\ m_vecGraphicsItem' = g.m_vecGraphicsItem
    /\ m_gpxBoundingBox' = g.m_gpxBoundingBox
    /\ m_gfxScene' = g.m_gfxScene
    /\ m_v3dView' = g.m_v3dView
    /\ m_viewTrihedronMode' = g.m_viewTrihedronMode
    /\ m_viewTrihedronCorner' = g.m_viewTrihedronCorner
    /\ m_aisViewCube' = g.m_aisViewCube
    /\ m_cameraAnimation' = g.m_cameraAnimation
    /\ emitted' = g.emitted

Op(name, id, val, doc) == [ op |-> name, id |-> id, val |-> val, doc |-> doc ]

NoOp == Op("constructor", 0, "", "")

NoDriverCall ==
    [ driver |-> "none", fn |-> "none", label |-> NullLabel, status |-> "None",
      entity |-> NullEntity ]

\* The documents with at most n entities: distinct ids, any of the labels, any
\* order.
Documents(n, labels) ==
    UNION { { d \in [ 1..k -> [ id : EntityIds, label : labels ] ] :
                \A i \in 1..k : \A j \in 1..k : i # j => d[i].id # d[j].id } :
            k \in 0..n }

\* The state after GuiDocument::GuiDocument(doc, guiApp).
GuiDocumentConstructed(doc) ==
    /\ document = doc
    /\ LET g == GuiDocument_ctor(doc)
       IN  /\ m_vecGraphicsItem = g.m_vecGraphicsItem
           /\ m_gpxBoundingBox = g.m_gpxBoundingBox
           /\ m_gfxScene = g.m_gfxScene
           /\ m_v3dView = g.m_v3dView
           /\ m_viewTrihedronMode = g.m_viewTrihedronMode
           /\ m_viewTrihedronCorner = g.m_viewTrihedronCorner
           /\ m_aisViewCube = g.m_aisViewCube
           /\ m_cameraAnimation = g.m_cameraAnimation
           /\ emitted = g.emitted
    /\ lastOp = NoOp
    /\ driverCall = NoDriverCall

\* A GuiDocument is constructed; no reader or writer is in use.
Constructed(doc) == GuiDocumentConstructed(doc) /\ IoConstructed

Init == \E doc \in Documents(MaxEntities, DocLabels) : Constructed(doc)

\* Document::addEntity: the entity joins the document, then entityAdded(id)
\* is delivered to GuiDocument::onDocumentEntityAdded.
Document_addEntity(id, label) ==
    /\ id \notin docIds(document)
    /\ document' = Append(document, [ id |-> id, label |-> label ])
    /\ Becomes(onDocumentEntityAdded(Self, document', id))
    /\ lastOp' = Op("entityAdded", id, "", "")
    /\ UNCHANGED << driverCall, ioVars >>

\* Document::destroyEntity: entityAboutToBeDestroyed(id) is delivered to
\* GuiDocument::onDocumentEntityAboutToBeDestroyed, then the entity leaves.
Document_destroyEntity(id) ==
    /\ id \in docIds(document)
    /\ Becomes(onDocumentEntityAboutToBeDestroyed(Self, id))
    /\ document' = SelectSeq(document, LAMBDA e : e.id # id)
    /\ lastOp' = Op("entityAboutToBeDestroyed", id, "", "")
    /\ UNCHANGED << driverCall, ioVars >>

\* Document::entityAdded(id) is delivered once more for an entity that is
\* already in the document, while the side-table has fewer items than there
\* are entity ids.
Document_entityAdded(id) ==
    /\ id \in docIds(document)
    /\ Len(m_vecGraphicsItem) < MaxEntities
    /\ Becomes(onDocumentEntityAdded(Self, document, id))
    /\ lastOp' = Op("entityAdded", id, "again", "")
    /\ UNCHANGED << document, driverCall, ioVars >>

AppItems ==
    [ doc : { "this", "other" }, kind : { "Document" }, node : { 0 } ]
    \cup [ doc : { "this", "other" }, kind : { "DocumentTreeNode" }, node : TreeNodeIds ]

ToggleItemSelected(appItem) ==
    /\ Becomes(toggleItemSelected(Self, appItem))
    /\ lastOp' = Op("toggleItemSelected", appItem.node, appItem.kind, appItem.doc)
    /\ UNCHANGED << document, driverCall, ioVars >>

SetViewTrihedronMode(mode) ==
    /\ Becomes(setViewTrihedronMode(Self, mode))
    /\ lastOp' = Op("setViewTrihedronMode", 0, mode, "")
    /\ UNCHANGED << document, driverCall, ioVars >>

SetViewTrihedronCorner(corner) ==
    /\ Becomes(setViewTrihedronCorner(Self, corner))
    /\ lastOp' = Op("setViewTrihedronCorner", 0, corner, "")
    /\ UNCHANGED << document, driverCall, ioVars >>

\* The owners an action of the view can be about: none, the owner of a face
\* of an entity's object, an owner of the view cube.
GraphicsOwners ==
    { NullOwner }
    \cup { [ obj |-> << "XCAFPrs_AISObject", id >>, face |-> k ] :
               id \in EntityIds, k \in 1..MaxFaces }
    \cup { ViewCubeOwner(orientation) : orientation \in MainOrientations }

ProcessAction(graphicsOwner) ==
    /\ m_cameraAnimation.nbStart < MaxAnimations
    /\ Becomes(processAction(Self, graphicsOwner))
    /\ lastOp' = Op("processAction", 0, graphicsOwner, "")
    /\ UNCHANGED << document, driverCall, ioVars >>

StopViewCameraAnimation ==
    /\ Becomes(stopViewCameraAnimation(Self))
    /\ lastOp' = Op("stopViewCameraAnimation", 0, "", "")
    /\ UNCHANGED << document, driverCall, ioVars >>

GuiDocumentUnchanged ==
    UNCHANGED << document, m_vecGraphicsItem, m_gpxBoundingBox, m_gfxScene, m_v3dView,
                 m_viewTrihedronMode, m_viewTrihedronCorner, m_aisViewCube,
                 m_cameraAnimation, emitted, lastOp, ioVars >>

Driver_supportStatus(driver, label) ==
    /\ driverCall' = [ driver |-> driver, fn |-> "supportStatus", label |-> label,
                       status |-> supportStatus(driver, label), entity |-> NullEntity ]
    /\ GuiDocumentUnchanged

Driver_createEntity(driver, label) ==
    /\ driverCall' = [ driver |-> driver, fn |-> "createEntity", label |-> label,
                       status |-> "None", entity |-> createEntity(driver, label, 1) ]
    /\ GuiDocumentUnchanged

\* The document mutates: entities are added and destroyed.
NextScene ==
    \/ \E id \in EntityIds : \E label \in DocLabels : Document_addEntity(id, label)
    \/ \E id \in EntityIds : Document_destroyEntity(id)

SpecScene == Init /\ [][NextScene]_vars

\* The document mutates and its notifications may come more than once (the
\* boxes of the entities play no part in the side-table's ids).
InitNotify == \E doc \in Documents(MaxEntities, DocLabelsWith({ VoidBox })) : Constructed(doc)

NextNotify ==
    \/ \E id \in EntityIds : \E label \in DocLabelsWith({ VoidBox }) :
          Document_addEntity(id, label)
    \/ \E id \in EntityIds : Document_entityAdded(id)
    \/ \E id \in EntityIds : Document_destroyEntity(id)

SpecNotify == InitNotify /\ [][NextNotify]_vars

\* The user selects items, on the GuiDocument of any document (the boxes of
\* its entities play no part in the selection).
InitSelection == \E doc \in Documents(MaxEntities, DocLabelsWith({ VoidBox })) : Constructed(doc)

NextSelection == \E appItem \in AppItems : ToggleItemSelected(appItem)

SpecSelection == InitSelection /\ [][NextSelection]_vars

\* The view trihedron settings change, on the GuiDocument of any document
\* with at most one entity.
InitTrihedron == \E doc \in Documents(1, DocLabels) : Constructed(doc)

NextTrihedron ==
    \/ \E mode \in ViewTrihedronModes : SetViewTrihedronMode(mode)
    \/ \E corner \in QtCorners : SetViewTrihedronCorner(corner)

SpecTrihedron == InitTrihedron /\ [][NextTrihedron]_vars

\* The user acts on owners under the mouse, selects items and changes the
\* trihedron mode, on the GuiDocument of any document with at most one entity.
InitAction == \E doc \in Documents(1, DocLabelsWith({ VoidBox })) : Constructed(doc)

NextAction ==
    \/ \E graphicsOwner \in GraphicsOwners : ProcessAction(graphicsOwner)
    \/ StopViewCameraAnimation
    \/ \E appItem \in AppItems : ToggleItemSelected(appItem)
    \/ \E mode \in ViewTrihedronModes : SetViewTrihedronMode(mode)

SpecAction == InitAction /\ [][NextAction]_vars

\* The drivers are called on every label they can distinguish.
InitDrivers == Constructed(<< >>)

NextDrivers ==
    \/ \E driver \in Drivers : \E label \in DriverLabels : Driver_supportStatus(driver, label)
    \/ \E driver \in Drivers : \E label \in DriverLabels : Driver_createEntity(driver, label)

SpecDrivers == InitDrivers /\ [][NextDrivers]_vars

\* ------------------------------------------------- readers and writers run
\* Writer::transfer and Writer::writeFile, dispatched on the class of the
\* writer.  nan, a and b are the outcomes the kernel and the platform decide.
transfer(class, self, spanAppItem, nan) ==
    IF class = "OccGltfWriter" THEN OccGltfWriter_transfer(self, spanAppItem)
    ELSE OccVrmlWriter_transfer(self, spanAppItem, nan)

writeFile(class, self, a, b) ==
    IF class = "OccGltfWriter" THEN OccGltfWriter_writeFile(self, a /\ b)
    ELSE OccVrmlWriter_writeFile(self, a, b)

\* What transfer leaves in a writer for writeFile to export: the document
\* and the root labels of a glTF writer, the scene of a VRML writer.
TransferState(class, self) ==
    IF class = "OccGltfWriter"
    THEN [ document |-> self.m_document, labels |-> self.m_seqRootLabel ]
    ELSE self.m_scene

\* The writer as constructed, with the parameters of self.
Fresh(class, self) ==
    IF class = "OccGltfWriter"
    THEN [ OccGltfWriter_ctor EXCEPT !.m_params = self.m_params ]
    ELSE [ OccVrmlWriter_ctor(self.m_shapeRepresentation) EXCEPT !.m_params = self.m_params ]

StepUnchanged == UNCHANGED << statics, cafLock, threads >>

\* The user sets one property of the group to another value.
Property_setValue(group) ==
    /\ group.type = properties.type
    /\ Cardinality({ n \in PropertyNames(group) : group[n] # properties[n] }) = 1
    /\ properties' = group
    /\ call' = IoCall("setValue", properties.type, "none", "none", << >>)
    /\ kernel' = NoKernelCall
    /\ StepUnchanged
    /\ UNCHANGED << guiVars, io, display, lastTransfer >>

\* PropertyGroup::restoreDefaults on the group.
Properties_restoreDefaults ==
    /\ properties' = restoreDefaults(properties)
    /\ call' = IoCall("restoreDefaults", properties.type, "none", "none", << >>)
    /\ kernel' = NoKernelCall
    /\ StepUnchanged
    /\ UNCHANGED << guiVars, io, display, lastTransfer >>

\* applyProperties(group) on the object of a class.
Io_applyProperties(class, group) ==
    /\ io' = [ io EXCEPT ![class] = applyProperties(class, @, group) ]
    /\ call' = IoCall("applyProperties", class, group.type, "none", << >>)
    /\ kernel' = NoKernelCall
    /\ StepUnchanged
    /\ UNCHANGED << guiVars, properties, display, lastTransfer >>

\* transfer(spanAppItem) on the writer of a class.  The call is recorded
\* with one more field: whether the writer held, from an earlier transfer,
\* something else than it holds now.
Writer_transfer(class, spanAppItem, nan) ==
    LET r == transfer(class, io[class], spanAppItem, nan)
        before == TransferState(class, io[class])
        replaced == /\ before # TransferState(class, Fresh(class, io[class]))
                    /\ before # TransferState(class, r.self)
    IN  /\ io' = [ io EXCEPT ![class] = r.self ]
        /\ call' = [ op |-> "transfer", target |-> class, arg |-> spanAppItem,
                     result |-> r.result, progress |-> r.progress,
                     replaced |-> replaced ]
        /\ kernel' = r.kernel
        /\ lastTransfer' = IF r.result THEN "succeeded" ELSE "failed"
        /\ StepUnchanged
        /\ UNCHANGED << guiVars, properties, display >>

\* writeFile(filepath) on the writer of a class.
Writer_writeFile(class, a, b) ==
    LET r == writeFile(class, io[class], a, b)
    IN  /\ io' = [ io EXCEPT ![class] = r.self ]
        /\ call' = IoCall("writeFile", class, "filepath", r.result, r.progress)
        /\ kernel' = r.kernel
        /\ StepUnchanged
        /\ UNCHANGED << guiVars, properties, display, lastTransfer >>

\* Thread t enters readFile, transfer or writeFile and takes the CAF lock.
Thread_lock(t, op) ==
    /\ threads[t].pc = "idle"
    /\ op \in StepOperations(threads[t].class)
    /\ cafLock = 0
    /\ cafLock' = t
    /\ threads' = [ threads EXCEPT ![t].pc = "locked", ![t].op = op,
                                   ![t].observed = NoStatics, ![t].written = "nothing" ]
    /\ UNCHANGED << guiVars, properties, io, kernel, statics, display, call, lastTransfer >>

\* Thread t constructs its rollback and calls changeStaticVariables.
Thread_changeStaticVariables(t) ==
    /\ threads[t].pc = "locked"
    /\ LET r == changeStaticVariables(threads[t].class, threads[t].self,
                                      [ statics |-> statics, saved |-> << >> ])
       IN  /\ statics' = r.rollback.statics
           /\ threads' = [ threads EXCEPT ![t].pc = "changed", ![t].self = r.self,
                                          ![t].saved = r.rollback.saved ]
    /\ UNCHANGED << guiVars, properties, io, kernel, cafLock, display, call, lastTransfer >>

\* The kernel call of the operation, under the static variables values:
\* Private::cafReadFile and Private::cafTransfer read, the writer's
\* Private::cafTransfer populates the STEP model, Write writes it.
kernelCall(thread, values) ==
    LET th == [ thread EXCEPT !.observed = values ]
    IN  IF thread.class = "OccStepWriter" /\ thread.op = "transfer"
        THEN [ th EXCEPT !.self.m_writer.populated = TRUE, !.transferred = TRUE ]
        ELSE IF thread.class = "OccStepWriter" /\ thread.op = "writeFile"
        THEN [ th EXCEPT !.written = IF thread.self.m_writer.populated
                                     THEN "populated" ELSE "empty" ]
        ELSE th

\* Thread t makes the kernel call of its operation.
Thread_kernelCall(t) ==
    /\ threads[t].pc = "changed"
    /\ threads' = [ threads EXCEPT ![t] = [ kernelCall(@, statics) EXCEPT !.pc = "called" ] ]
    /\ UNCHANGED << guiVars, properties, io, kernel, statics, cafLock, display, call, lastTransfer >>

\* Thread t leaves the operation: its locals are destroyed one at a time.
Thread_scopeExit(t) ==
    /\ threads[t].pc \in { "called", "exiting" }
    /\ LET local == ScopeExitOrder[IF threads[t].pc = "called" THEN 1 ELSE 2]
           pc == IF threads[t].pc = "called" THEN "exiting" ELSE "idle"
       IN  IF local = "rollback"
           THEN /\ statics' = OccStaticVariablesRollback_dtor(statics, threads[t].saved)
                /\ threads' = [ threads EXCEPT ![t].pc = pc, ![t].saved = << >> ]
                /\ UNCHANGED cafLock
           ELSE /\ cafLock' = 0
                /\ threads' = [ threads EXCEPT ![t].pc = pc ]
                /\ UNCHANGED statics
    /\ UNCHANGED << guiVars, properties, io, kernel, display, call, lastTransfer >>

\* applyDisplayMode(entity, mode) on a driver.
Driver_applyDisplayMode(driver, e, mode) ==
    LET r == applyDisplayMode(driver, display, e, mode)
    IN  /\ display' = r.display
        /\ call' = IoCall("applyDisplayMode", driver, << e, mode >>, r.result, << >>)
        /\ StepUnchanged
        /\ UNCHANGED << guiVars, properties, io, kernel, lastTransfer >>

\* currentDisplayMode(entity) on a driver.
Driver_currentDisplayMode(driver, e) ==
    /\ call' = IoCall("currentDisplayMode", driver, << e >>,
                      currentDisplayMode(driver, display, e), << >>)
    /\ StepUnchanged
    /\ UNCHANGED << guiVars, properties, io, kernel, display, lastTransfer >>

\* properties(entity) on a driver.
Driver_properties(driver, e) ==
    /\ call' = IoCall("properties", driver, << e >>,
                      driverProperties(driver, display, e), << >>)
    /\ StepUnchanged
    /\ UNCHANGED << guiVars, properties, io, kernel, display, lastTransfer >>

\* handleColorChanged(entity, docTreeNode) on the shape driver.
Driver_handleColorChanged(e, docTreeNode) ==
    LET r == GraphicsShapeEntityDriver_handleColorChanged(display, e, docTreeNode)
    IN  /\ display' = r.display
        /\ call' = IoCall("handleColorChanged", ShapeDriver, << e, docTreeNode >>,
                          r.result, << >>)
        /\ StepUnchanged
        /\ UNCHANGED << guiVars, properties, io, kernel, lastTransfer >>

\* Document::colorChanged(treeNodeId) is delivered to
\* GuiDocument::onDocumentColorChanged.
Document_colorChanged(treeNodeId, color) ==
    LET r == onDocumentColorChanged(Self, display, treeNodeId, color)
    IN  /\ display' = r.display
        /\ call' = IoCall("colorChanged", r.driver, << treeNodeId, color >>, r.result, << >>)
        /\ StepUnchanged
        /\ UNCHANGED << guiVars, properties, io, kernel, lastTransfer >>

\* The user edits a property group of any class, restores its defaults and
\* applies it, or a null group, to the object of any class.
InitProperties ==
    /\ GuiDocumentConstructed(<< >>)
    /\ properties \in PropertyGroups
    /\ io = IoObjects("Both")
    /\ kernel = NoKernelCall
    /\ statics = Interface_Static_Init
    /\ cafLock = 0
    /\ threads = << >>
    /\ display = NoDisplay
    /\ call = NoCall
    /\ lastTransfer = "never"

NextProperties ==
    \/ \E group \in PropertyGroups : Property_setValue(group)
    \/ Properties_restoreDefaults
    \/ \E class \in IoClasses : \E group \in { properties, NullGroup } :
          Io_applyProperties(class, group)

SpecProperties == InitProperties /\ [][NextProperties]_vars

\* A glTF or a VRML writer is used: the group of its class is applied to it,
\* items are transferred and the file is written, in any order.  The group
\* has the defaults, one property changed, or every property changed.  The
\* VRML writer's member m_shapeRepresentation starts with any representation.
WriterPropertyGroups ==
    { group \in OccGltfWriter_PropertyGroups \cup OccVrmlWriter_PropertyGroups :
        LET defaults == DefaultParameters(group.type)
            changed == { f \in DOMAIN defaults : ParametersOf(group)[f] # defaults[f] }
        IN  Cardinality(changed) <= 1 \/ changed = DOMAIN defaults }

InitWriters ==
    /\ GuiDocumentConstructed(<< >>)
    /\ properties \in WriterPropertyGroups
    /\ \E rep \in VrmlRepresentations :
          /\ properties.type = "OccGltfWriter" => rep = "Both"
          /\ io = IoObjects(rep)
    /\ kernel = NoKernelCall
    /\ statics = Interface_Static_Init
    /\ cafLock = 0
    /\ threads = << >>
    /\ display = NoDisplay
    /\ call = NoCall
    /\ lastTransfer = "never"

NextWriters ==
    \/ Io_applyProperties(properties.type, properties)
    \/ \E spanAppItem \in ExportSpans :
          \E nan \in IF properties.type = "OccVrmlWriter" /\ Len(spanAppItem) = 1
                      THEN NaNToInt ELSE { 0 } :
            Writer_transfer(properties.type, spanAppItem, nan)
    \/ \E a \in BOOLEAN : \E b \in BOOLEAN : Writer_writeFile(properties.type, a, b)

SpecWriters == InitWriters /\ [][NextWriters]_vars

\* Threads, each with a STEP reader or writer of its own, run operations
\* concurrently.
InitStep ==
    /\ GuiDocumentConstructed(<< >>)
    /\ properties = NullGroup
    /\ io = IoObjects("Both")
    /\ kernel = NoKernelCall
    /\ statics = Interface_Static_Init
    /\ cafLock = 0
    /\ threads \in [ ThreadIds -> StepThreads ]
    /\ display = NoDisplay
    /\ call = NoCall
    /\ lastTransfer = "never"

NextStep ==
    \/ \E t \in ThreadIds : \E op \in { "readFile", "transfer", "writeFile" } : Thread_lock(t, op)
    \/ \E t \in ThreadIds : Thread_changeStaticVariables(t)
    \/ \E t \in ThreadIds : Thread_kernelCall(t)
    \/ \E t \in ThreadIds : Thread_scopeExit(t)

SpecStep == InitStep /\ [][NextStep]_vars

\* The display mode of two entities attached to one scene is changed and
\* read, through either driver and with any mode; their property group is
\* asked for and the shape driver is told of a color change.
InitDisplay ==
    /\ GuiDocumentConstructed(<< >>)
    /\ properties = NullGroup
    /\ io = IoObjects("Both")
    /\ kernel = NoKernelCall
    /\ statics = Interface_Static_Init
    /\ cafLock = 0
    /\ threads = << >>
    /\ display \in DisplayScenes
    /\ call = NoCall
    /\ lastTransfer = "never"

NextDisplay ==
    \/ \E driver \in Drivers : \E e \in DisplayedEntities :
          \E mode \in GraphicsShapeEntityDriver_displayModes
                        \cup GraphicsMeshEntityDriver_displayModes \cup { NoDisplayMode } :
            Driver_applyDisplayMode(driver, e, mode)
    \/ \E driver \in Drivers : \E e \in DisplayedEntities :
          Driver_currentDisplayMode(driver, e)
    \/ \E driver \in Drivers : \E e \in DisplayedEntities : Driver_properties(driver, e)
    \/ \E e \in DisplayedEntities :
          \E docTreeNode \in { DocumentTreeNode(0, "Quantity_NOC_RED"),
                                DocumentTreeNode(displayedRoot(e) + MaxEntities,
                                                 "Quantity_NOC_RED") } :
            Driver_handleColorChanged(e, docTreeNode)

SpecDisplay == InitDisplay /\ [][NextDisplay]_vars

\* The colors of the labels of a document with at most one entity change,
\* and the shape driver is told so of each object, also with a node that is
\* not valid.
InitColor ==
    /\ \E doc \in Documents(1, DocLabelsWith({ VoidBox })) :
          /\ GuiDocumentConstructed(doc)
          /\ display \in ColorScenes(GuiDocument_ctor(doc))
    /\ properties = NullGroup
    /\ io = IoObjects("Both")
    /\ kernel = NoKernelCall
    /\ statics = Interface_Static_Init
    /\ cafLock = 0
    /\ threads = << >>
    /\ call = NoCall
    /\ lastTransfer = "never"

NextColor ==
    \/ \E treeNodeId \in TreeNodeIds : \E color \in SurfaceColors \cup { "none" } :
          Document_colorChanged(treeNodeId, color)
    \/ \E e \in 0..MaxEntities :
          \E treeNodeId \in TreeNodeIds \cup { 0 } : \E color \in SurfaceColors :
            /\ e \in DOMAIN display.entities
            /\ Driver_handleColorChanged(e, DocumentTreeNode(treeNodeId, color))

SpecColor == InitColor /\ [][NextColor]_vars

\* ------------------------------------------------------------------ claims
\* The smallest box enclosing a set of points.
Hull(points) == IF points = {} THEN VoidBox ELSE SetMin(points) .. SetMax(points)

\* The points covered by the boxes of the objects of a side-table.
ItemPoints(items) == UNION { items[i].graphicsEntity.m_aisBndBox : i \in DOMAIN items }

\* The entity is in the document and the driver table builds an object for it.
Representable(doc, id) ==
    /\ id \in docIds(doc)
    /\ GraphicsEntityDriverTable_createEntity(docLabel(doc, id), 1).m_aisObject # NullObject

BoxChanged(box) == Signal("graphicsBoundingBoxChanged", box, "")

\* C1: findGraphicsEntity(id) has a graphics object exactly for the live
\* entities the driver table can represent, and is the default entity for
\* every destroyed, never-added or unrepresentable id.
C1_FindGraphicsEntity ==
    \A id \in 0..(MaxEntities * (MaxFaces + 1)) :
        LET entity == findGraphicsEntity(Self, id)
        IN  /\ entity.m_aisObject # NullObject <=> Representable(document, id)
            /\ ~Representable(document, id) => entity = NullEntity

\* An entity with an item was destroyed and is no longer found, while another
\* live entity is found with its object.
C1_Witness ==
    /\ lastOp.op = "entityAboutToBeDestroyed"
    /\ emitted # << >>
    /\ lastOp.id \notin docIds(document)
    /\ findGraphicsEntity(Self, lastOp.id) = NullEntity
    /\ \E id \in docIds(document) : findGraphicsEntity(Self, id).m_aisObject # NullObject

\* C2: graphicsBoundingBox() is the union (enclosing box) of the boxes of the
\* objects of the items in the side-table, and void when the table is empty.
C2_BoundingBoxIsUnion ==
    /\ m_gpxBoundingBox = Hull(ItemPoints(m_vecGraphicsItem))
    /\ m_vecGraphicsItem = << >> => m_gpxBoundingBox = VoidBox

\* An item was removed and the box shrank to that of the item that is left.
C2_Witness ==
    /\ lastOp.op = "entityAboutToBeDestroyed"
    /\ emitted # << >>
    /\ Len(m_vecGraphicsItem) = 1
    /\ m_gpxBoundingBox # VoidBox
    /\ Cardinality(m_gpxBoundingBox) = 1

C4_EntityAdded ==
    [][ lastOp'.op = "entityAdded" =>
          /\ emitted' = << BoxChanged(m_gpxBoundingBox') >>
          /\ IF Representable(document', lastOp'.id)
             THEN /\ Len(m_vecGraphicsItem') = Len(m_vecGraphicsItem) + 1
                  /\ SubSeq(m_vecGraphicsItem', 1, Len(m_vecGraphicsItem)) = m_vecGraphicsItem
                  /\ LET item == m_vecGraphicsItem'[Len(m_vecGraphicsItem')]
                     IN  /\ item.entityTreeNodeId = lastOp'.id
                         /\ item.graphicsEntity.m_aisObject # NullObject
                         /\ item.graphicsEntity.m_aisObject \notin m_gfxScene.objects
                         /\ item.graphicsEntity.m_aisObject \in m_gfxScene'.visible
                         /\ m_gpxBoundingBox' =
                                Hull(m_gpxBoundingBox \cup item.graphicsEntity.m_aisBndBox)
             ELSE /\ m_vecGraphicsItem' = m_vecGraphicsItem
                  /\ m_gfxScene' = m_gfxScene
                  /\ m_gpxBoundingBox' = m_gpxBoundingBox
      ]_vars

\* An entity was added behind another one and enlarged the box.
C4_Witness ==
    /\ lastOp.op = "entityAdded"
    /\ Len(m_vecGraphicsItem) = MaxEntities
    /\ m_vecGraphicsItem[Len(m_vecGraphicsItem)].entityTreeNodeId = lastOp.id
    /\ emitted = << BoxChanged(m_gpxBoundingBox) >>
    /\ m_gpxBoundingBox # m_vecGraphicsItem[Len(m_vecGraphicsItem)].graphicsEntity.m_aisBndBox
    /\ m_gpxBoundingBox # m_vecGraphicsItem[1].graphicsEntity.m_aisBndBox

\* C5: the shape driver's supportStatus is Complete exactly for XCAF shapes
\* and None otherwise; the mesh driver's is Complete with a triangulation
\* attribute, Partial without one for a FACE shape, None otherwise.
C5_SupportStatus ==
    driverCall.fn = "supportStatus" =>
        LET label == driverCall.label
        IN  /\ driverCall.driver = ShapeDriver =>
                 /\ driverCall.status = "Complete" <=> label.isShape
                 /\ driverCall.status = "None" <=> ~label.isShape
            /\ driverCall.driver = MeshDriver =>
                 /\ label.triAttr # "absent" => driverCall.status = "Complete"
                 /\ label.triAttr = "absent" /\ label.isShape
                        /\ label.shapeType = "TopAbs_FACE" => driverCall.status = "Partial"
                 /\ label.triAttr = "absent"
                        /\ ~(label.isShape /\ label.shapeType = "TopAbs_FACE")
                        => driverCall.status = "None"

\* The shape driver was asked about a label that has only a triangulation
\* attribute.
C5_Witness ==
    /\ driverCall.fn = "supportStatus"
    /\ driverCall.driver = ShapeDriver
    /\ ~driverCall.label.isShape
    /\ driverCall.label.triAttr = "set"
    /\ driverCall.status = "None"

\* C6 as claimed: createEntity(label) has a non-null object if and only if
\* the driver's supportStatus(label) is not None.
C6_ObjectIffSupported ==
    driverCall.fn = "createEntity" =>
        (driverCall.entity.m_aisObject # NullObject
            <=> supportStatus(driverCall.driver, driverCall.label) # "None")

\* C6 as amended: a non-null object implies a supportStatus other than None;
\* the converse holds for the shape driver, and the mesh driver builds an
\* object exactly when the triangulation it selects (the attribute's when the
\* attribute exists, else the one of a FACE shape) is non-null.
C6_ObjectOnlyIfSupported ==
    driverCall.fn = "createEntity" =>
        LET label == driverCall.label
            hasObject == driverCall.entity.m_aisObject # NullObject
        IN  /\ hasObject => supportStatus(driverCall.driver, label) # "None"
            /\ driverCall.driver = ShapeDriver =>
                 (hasObject <=> supportStatus(ShapeDriver, label) # "None")
            /\ driverCall.driver = MeshDriver =>
                 (hasObject <=>
                    \/ label.triAttr = "set"
                    \/ /\ label.triAttr = "absent"
                       /\ label.isShape
                       /\ label.shapeType = "TopAbs_FACE"
                       /\ label.faceTri)

\* The mesh driver built no object for a FACE without triangulation, which it
\* supports partially.
C6_Witness ==
    /\ driverCall.fn = "createEntity"
    /\ driverCall.driver = MeshDriver
    /\ driverCall.label.isShape
    /\ driverCall.label.shapeType = "TopAbs_FACE"
    /\ driverCall.label.triAttr = "absent"
    /\ ~driverCall.label.faceTri
    /\ driverCall.entity.m_aisObject = NullObject
    /\ supportStatus(MeshDriver, driverCall.label) = "Partial"

\* C7: the view cube is visible exactly in mode AisViewCube, the z-buffer
\* trihedron is displayed exactly in mode V3dViewZBuffer, and the two are
\* never shown together.
C7_TrihedronWidgets ==
    /\ GraphicsScene_isObjectVisible(m_gfxScene, ViewCubeObject)
           <=> m_viewTrihedronMode = "AisViewCube"
    /\ m_v3dView.triedronDisplayed <=> m_viewTrihedronMode = "V3dViewZBuffer"
    /\ ~(ViewCubeObject \in m_gfxScene.visible /\ m_v3dView.triedronDisplayed)

\* The mode went from the view cube to the z-buffer trihedron.
C7_Witness ==
    /\ lastOp = Op("setViewTrihedronMode", 0, "V3dViewZBuffer", "")
    /\ emitted # << >>
    /\ m_v3dView.triedronDisplayed
    /\ ~m_aisViewCube.isNull
    /\ ViewCubeObject \notin m_gfxScene.visible

\* C8: setViewTrihedronMode(m) with the current mode changes no state and
\* emits nothing; with another mode it leaves viewTrihedronMode() = m, emits
\* viewTrihedronModeChanged(m) once and keeps viewTrihedronCorner().
C8_SetViewTrihedronMode ==
    [][ lastOp'.op = "setViewTrihedronMode" =>
          IF lastOp'.val = m_viewTrihedronMode
          THEN /\ emitted' = << >>
               /\ UNCHANGED << document, m_vecGraphicsItem, m_gpxBoundingBox, m_gfxScene,
                               m_v3dView, m_viewTrihedronMode, m_viewTrihedronCorner,
                               m_aisViewCube >>
          ELSE /\ m_viewTrihedronMode' = lastOp'.val
               /\ emitted' = << Signal("viewTrihedronModeChanged", VoidBox, lastOp'.val) >>
               /\ m_viewTrihedronCorner' = m_viewTrihedronCorner
      ]_vars

\* The mode was set to the one already current, after a corner change.
C8_Witness ==
    /\ lastOp.op = "setViewTrihedronMode"
    /\ lastOp.val = m_viewTrihedronMode
    /\ emitted = << >>
    /\ m_viewTrihedronMode = "None"
    /\ m_viewTrihedronCorner = "BottomRightCorner"

\* C9: setViewTrihedronCorner(c) with the current corner changes no state and
\* emits nothing; with another corner it leaves viewTrihedronCorner() = c and
\* emits viewTrihedronCornerChanged(c) once in every mode, keeps the mode and
\* which widget is displayed, and in mode None changes nothing displayed.
C9_SetViewTrihedronCorner ==
    [][ lastOp'.op = "setViewTrihedronCorner" =>
          IF lastOp'.val = m_viewTrihedronCorner
          THEN /\ emitted' = << >>
               /\ UNCHANGED << document, m_vecGraphicsItem, m_gpxBoundingBox, m_gfxScene,
                               m_v3dView, m_viewTrihedronMode, m_viewTrihedronCorner,
                               m_aisViewCube >>
          ELSE /\ m_viewTrihedronCorner' = lastOp'.val
               /\ emitted' = << Signal("viewTrihedronCornerChanged", VoidBox, lastOp'.val) >>
               /\ m_viewTrihedronMode' = m_viewTrihedronMode
               /\ m_gfxScene'.visible = m_gfxScene.visible
               /\ m_v3dView'.triedronDisplayed = m_v3dView.triedronDisplayed
               /\ m_viewTrihedronMode = "None" =>
                      /\ m_gfxScene' = m_gfxScene
                      /\ m_v3dView' = m_v3dView
      ]_vars

\* The corner was changed while no widget was displayed.
C9_Witness ==
    /\ lastOp = Op("setViewTrihedronCorner", 0, "TopRightCorner", "")
    /\ emitted = << Signal("viewTrihedronCornerChanged", VoidBox, "TopRightCorner") >>
    /\ m_viewTrihedronMode = "None"
    /\ m_viewTrihedronCorner = "TopRightCorner"
    /\ ~m_v3dView.triedronDisplayed

\* The owners the mapping of the item of the node's entity root returns.
OwnersOfNode(node) ==
    LET i == findGraphicsItem(Self, nodeRoot(node))
        vecGfxOwner == findGraphicsOwners(m_vecGraphicsItem[i].gpxTreeNodeMapping, node)
    IN  { vecGfxOwner[k] : k \in DOMAIN vecGfxOwner }

\* C10: toggleItemSelected(item) leaves the selected owners unchanged when the
\* item is of another document, is not a document tree node, or the entity
\* root of its node has no item or no tree-node mapping; otherwise exactly the
\* owners the mapping returns for the node are toggled and no other changes.
C10_ToggleItemSelected ==
    [][ lastOp'.op = "toggleItemSelected" =>
          LET i == findGraphicsItem(Self, nodeRoot(lastOp'.id))
          IN  IF \/ lastOp'.doc # "this"
                 \/ lastOp'.val # "DocumentTreeNode"
                 \/ i = 0
                 \/ m_vecGraphicsItem[i].gpxTreeNodeMapping.isNull
              THEN m_gfxScene'.selected = m_gfxScene.selected
              ELSE /\ OwnersOfNode(lastOp'.id) # {}
                   /\ m_gfxScene'.selected =
                          (m_gfxScene.selected \ OwnersOfNode(lastOp'.id))
                          \cup (OwnersOfNode(lastOp'.id) \ m_gfxScene.selected)
      ]_vars

\* The root node of a shape entity was toggled while one of its faces was
\* selected: that face is now unselected and the others selected.
C10_Witness ==
    /\ lastOp.op = "toggleItemSelected"
    /\ lastOp.doc = "this"
    /\ lastOp.val = "DocumentTreeNode"
    /\ nodeFace(lastOp.id) = 0
    /\ findGraphicsItem(Self, lastOp.id) # 0
    /\ \E o \in OwnersOfNode(lastOp.id) : o \in m_gfxScene.selected
    /\ \E o \in OwnersOfNode(lastOp.id) : o \notin m_gfxScene.selected

\* C11: for each of the four property groups, restoreDefaults() leaves every
\* property of the group at the value of the corresponding field of a
\* default-constructed Parameters, whatever the values were before.
C11_RestoreDefaults ==
    call.op = "restoreDefaults" =>
        ParametersOf(properties) = DefaultParameters(properties.type)

\* C12: applyProperties(group) with a group of the object's own Properties
\* class leaves every field of the object's parameters equal to the
\* corresponding property; with a null group or a group of another class it
\* leaves the parameters unchanged.  No other object changes.
C12_ApplyProperties ==
    [][ call'.op = "applyProperties" =>
          LET class == call'.target
          IN  /\ \A other \in IoClasses \ { class } : io'[other] = io[other]
              /\ IF call'.arg = class
                 THEN io'[class].m_params = ParametersOf(properties)
                 ELSE io'[class] = io[class]
      ]_vars

\* A STEP writer group with no default value was applied to the STEP writer.
C12_Witness ==
    /\ call.op = "applyProperties"
    /\ call.target = "OccStepWriter"
    /\ call.arg = "OccStepWriter"
    /\ \A f \in DOMAIN OccStepWriter_Parameters :
          io.OccStepWriter.m_params[f] # OccStepWriter_Parameters[f]
    /\ io.OccStepWriter.m_params = ParametersOf(properties)

\* C13: every parameter of the glTF writer takes effect in writeFile: the
\* kernel writer it runs has the coordinate system conversion, the
\* transformation format, the binary flag and the forced UV export of the
\* parameters.
C13_GltfParametersTakeEffect ==
    (call.op = "writeFile" /\ call.target = "OccGltfWriter" /\ kernel # NoKernelCall) =>
        LET m_params == io.OccGltfWriter.m_params
        IN  /\ kernel.writer.isBinary = (m_params.format = "Binary")
            /\ kernel.writer.coordinatesConverter = m_params.coordinatesConverter
            /\ kernel.writer.transformationFormat = m_params.transformationFormat
            /\ kernel.writer.forceExportUV = m_params.forceExportUV

\* C14: OccVrmlWriter::transfer converts with the shape representation last
\* set by applyProperties: shaded iff it is Shaded or Both, wireframe iff it
\* is WireFrame or Both.  (Parameters other than the default can only come
\* from applyProperties.)
C14_VrmlRepresentationApplied ==
    LET rep == io.OccVrmlWriter.m_params.shapeRepresentation
    IN  ( /\ call.op = "transfer"
          /\ call.target = "OccVrmlWriter"
          /\ rep # OccVrmlWriter_Parameters.shapeRepresentation ) =>
            /\ io.OccVrmlWriter.m_scene.shaded <=> rep \in { "Shaded", "Both" }
            /\ io.OccVrmlWriter.m_scene.wireframe <=> rep \in { "WireFrame", "Both" }

\* The items of a span that are a document or a tree node, in order.
ExportedItems(spanAppItem) ==
    SelectSeq(spanAppItem, LAMBDA item : item.kind \in { "Document", "DocumentTreeNode" })

\* The labels of the tree nodes of a span that belong to doc, in order.
RootLabelsOf(spanAppItem, doc) ==
    LET nodes == SelectSeq(spanAppItem,
                           LAMBDA item : item.kind = "DocumentTreeNode" /\ item.doc = doc)
    IN  [ i \in 1..Len(nodes) |-> treeNodeLabel(nodes[i]) ]

\* C15: after OccGltfWriter::transfer(items) the export document is the
\* document of the first item that is a document or a tree node, the root
\* labels are the labels of the tree nodes of that document in input order,
\* and the call returns true iff some item is a document or a tree node;
\* writeFile exports the whole document exactly when there is no root label.
C15_GltfTransfer ==
    /\ (call.op = "transfer" /\ call.target = "OccGltfWriter") =>
          LET exported == ExportedItems(call.arg)
              self == io.OccGltfWriter
          IN  /\ call.result <=> exported # << >>
              /\ self.m_document = IF exported = << >> THEN NullDocument
                                   ELSE exported[1].doc
              /\ self.m_seqRootLabel = RootLabelsOf(call.arg, self.m_document)
    /\ (call.op = "writeFile" /\ call.target = "OccGltfWriter" /\ kernel # NoKernelCall) =>
          /\ kernel.document = io.OccGltfWriter.m_document
          /\ kernel.labels = io.OccGltfWriter.m_seqRootLabel
          /\ kernel.whole <=> io.OccGltfWriter.m_seqRootLabel = << >>

\* A tree node of one document was transferred together with a tree node of
\* another document, which was ignored.
C15_Witness ==
    /\ call.op = "transfer"
    /\ call.target = "OccGltfWriter"
    /\ Len(call.arg) = 2
    /\ call.arg[1].kind = "DocumentTreeNode"
    /\ call.arg[2].kind = "DocumentTreeNode"
    /\ call.arg[1].doc # call.arg[2].doc
    /\ io.OccGltfWriter.m_document = call.arg[1].doc
    /\ Len(io.OccGltfWriter.m_seqRootLabel) = 1
    /\ call.result

\* C16: writeFile on a glTF or VRML writer on which no transfer has succeeded
\* (none was called, or the last one returned false) returns false and
\* neither runs the kernel writer nor opens the output file.
C16_WriteFileWithoutTransfer ==
    (call.op = "writeFile" /\ lastTransfer # "succeeded") =>
        /\ call.result = FALSE
        /\ kernel = NoKernelCall

\* writeFile was called on a glTF writer whose last transfer had failed, the
\* kernel being ready to write.
C16_Witness ==
    /\ call.op = "writeFile"
    /\ call.target = "OccGltfWriter"
    /\ lastTransfer = "failed"
    /\ call.result = FALSE

\* C17: in every state reached by calls of setViewTrihedronMode and
\* setViewTrihedronCorner the displayed widget is anchored at
\* viewTrihedronCorner(): in mode AisViewCube the 2D corner of the view cube
\* is the stored corner, in mode V3dViewZBuffer the trihedron is displayed
\* at the stored corner.
C17_WidgetAtStoredCorner ==
    /\ m_viewTrihedronMode = "AisViewCube" =>
          /\ ~m_aisViewCube.isNull
          /\ m_aisViewCube.corner2d = toOccCorner(m_viewTrihedronCorner)
    /\ m_viewTrihedronMode = "V3dViewZBuffer" =>
          /\ m_v3dView.triedronDisplayed
          /\ m_v3dView.triedronPosition = toOccCorner(m_viewTrihedronCorner)

\* C18: when writeFile follows transfer on a STEP writer, the model written
\* is the one transfer populated: it is not re-created before the kernel's
\* Write, whatever the schema of the parameters.
C18_TransferredModelIsWritten ==
    \A t \in ThreadIds :
        ( /\ threads[t].class = "OccStepWriter"
          /\ threads[t].transferred
          /\ threads[t].written # "nothing" ) => threads[t].written = "populated"

\* The static variables an operation of the thread is to run under: those
\* its own changeStaticVariables makes of the initial ones.
OwnStatics(thread) ==
    changeStaticVariables(thread.class, thread.self,
                          [ statics |-> Interface_Static_Init, saved |-> << >> ]).rollback.statics

\* C19: a STEP operation changes the static variables only while its thread
\* holds the CAF lock, and the lock is released only once they have their
\* initial values again; so every kernel call runs under the values of its
\* own object's parameters, and whenever no operation runs every static
\* variable has its initial value.
C19_StaticsUnderLock ==
    [][ /\ statics' # statics =>
              /\ cafLock # 0
              /\ cafLock' = cafLock
              /\ threads'[cafLock] # threads[cafLock]
              /\ \A t \in ThreadIds \ { cafLock } : threads'[t] = threads[t]
        /\ (cafLock # 0 /\ cafLock' # cafLock) => statics' = Interface_Static_Init
        /\ \A t \in ThreadIds :
              (threads[t].pc = "changed" /\ threads'[t].pc = "called") =>
                  threads'[t].observed = OwnStatics(threads'[t])
        /\ (\A t \in ThreadIds : threads'[t].pc = "idle") =>
              statics' = Interface_Static_Init
      ]_vars

\* A thread has made its kernel call under parameters that are not the
\* defaults, after another thread with other parameters ran an operation.
C19_Witness ==
    /\ cafLock = 1
    /\ threads[1].pc = "called"
    /\ threads[1].self.m_params # DefaultParameters(threads[1].class)
    /\ threads[1].observed = OwnStatics(threads[1])
    /\ threads[2].pc = "idle"
    /\ threads[2].op # "none"
    /\ threads[2].self.m_params # DefaultParameters(threads[2].class)
    /\ threads[2].self.m_params # threads[1].self.m_params

\* C20: for each driver and each mode m of its displayModes(),
\* currentDisplayMode(e) = m right after applyDisplayMode(e, m) on an entity
\* the driver created, whatever the modes of the entity and of the scene
\* were before.
C20_AppliedModeIsCurrent ==
    call.op = "applyDisplayMode" =>
        LET driver == call.target
            e == call.arg[1]
            mode == call.arg[2]
        IN  (display.entities[e].m_driverPtr = driver /\ mode \in displayModes(driver)) =>
                /\ call.result = "ok"
                /\ currentDisplayMode(driver, display, e) = mode

\* Shaded was applied to a shape entity while the scene drew hidden lines
\* for the other entity's sake: hidden line drawing is off again.
C20_Witness ==
    /\ call.op = "applyDisplayMode"
    /\ call.target = ShapeDriver
    /\ call.arg = << "A", "DisplayMode_Shaded" >>
    /\ call.result = "ok"
    /\ display.entities["B"].m_driverPtr = ShapeDriver
    /\ display.entities["A"].displayMode = "AIS_Shaded"
    /\ ~display.entities["A"].faceBoundaryDraw
    /\ ~display.scene.drawHiddenLine

\* C21: for two distinct shape entities A and B attached to the same scene,
\* applyDisplayMode(A, m) leaves currentDisplayMode(B) as it was, for every
\* mode m and every state before the call.
C21_OtherEntityUnchanged ==
    [][ ( /\ call'.op = "applyDisplayMode"
          /\ call'.target = ShapeDriver
          /\ \A e \in DisplayedEntities : display.entities[e].m_driverPtr = ShapeDriver ) =>
            \A b \in DisplayedEntities \ { call'.arg[1] } :
                currentDisplayMode(ShapeDriver, display', b)
                    = currentDisplayMode(ShapeDriver, display, b)
      ]_vars

\* C22: applyDisplayMode of either driver throws std::invalid_argument for
\* an entity another driver created (this is checked first) and for a mode
\* that is not one of the driver's displayModes(); currentDisplayMode,
\* properties and handleColorChanged throw for an entity of another driver.
\* Whenever one of them throws, the display modes, the face boundary flags,
\* the custom colors and the hidden-line settings of the scene are unchanged.
C22_InvalidArgument ==
    [][ LET driver == call'.target
            e == call'.arg[1]
            different == display.entities[e].m_driverPtr # driver
        IN  /\ ( /\ call'.op \in { "applyDisplayMode", "currentDisplayMode",
                                   "properties", "handleColorChanged" }
                 /\ different ) =>
                    /\ call'.result = InvalidDriver
                    /\ display' = display
            /\ ( /\ call'.op = "applyDisplayMode"
                 /\ ~different
                 /\ call'.arg[2] \notin displayModes(driver) ) =>
                    /\ call'.result = InvalidDisplayMode
                    /\ display' = display
      ]_vars

\* The mesh driver was asked to apply a mode that is none of its own to an
\* entity of the shape driver whose scene draws hidden lines: it threw for
\* the driver.
C22_Witness ==
    /\ call.op = "applyDisplayMode"
    /\ call.target = MeshDriver
    /\ call.arg = << "A", NoDisplayMode >>
    /\ call.result = InvalidDriver
    /\ display.entities["A"].m_driverPtr = ShapeDriver
    /\ display.scene.drawHiddenLine

\* C23: whatever entityAdded and entityAboutToBeDestroyed notifications
\* arrive (entityAdded for an id that already has an item included), no two
\* items of the side-table have the same entity tree-node id, so that after
\* entityAboutToBeDestroyed(id) no item and no displayed object is left for
\* id.
C23_NoDuplicateIds ==
    /\ \A i \in DOMAIN m_vecGraphicsItem : \A j \in DOMAIN m_vecGraphicsItem :
          i # j => m_vecGraphicsItem[i].entityTreeNodeId # m_vecGraphicsItem[j].entityTreeNodeId
    /\ lastOp.op = "entityAboutToBeDestroyed" =>
          /\ findGraphicsItem(Self, lastOp.id) = 0
          /\ \A i \in DOMAIN m_vecGraphicsItem :
                m_vecGraphicsItem[i].entityTreeNodeId = lastOp.id =>
                    m_vecGraphicsItem[i].graphicsEntity.m_aisObject \notin m_gfxScene.objects

\* C24: what a glTF or VRML writer holds after transfer(items) is what a
\* newly constructed writer with the same parameters holds after
\* transfer(items), whatever was transferred before; no other call changes
\* it, and writeFile exports exactly it.
C24_TransferStartsAfresh ==
    [][ LET class == call'.target
        IN  call'.op \in { "applyProperties", "transfer", "writeFile" } =>
              /\ call'.op = "transfer" =>
                    io'[class] = transfer(class, Fresh(class, io[class]), call'.arg, 0).self
              /\ call'.op # "transfer" =>
                    TransferState(class, io'[class]) = TransferState(class, io[class])
              /\ (call'.op = "writeFile" /\ kernel' # NoKernelCall) =>
                    IF class = "OccGltfWriter"
                    THEN /\ kernel'.document = io[class].m_document
                         /\ kernel'.labels = io[class].m_seqRootLabel
                    ELSE kernel'.scene \in { io[class].m_scene, NullVrmlScene }
      ]_vars

\* A VRML writer that held the scene of an earlier transfer of other items
\* transferred one shape of document docB: the scene has that shape alone.
C24_Witness ==
    /\ call.op = "transfer"
    /\ call.target = "OccVrmlWriter"
    /\ call.replaced
    /\ Len(call.arg) = 1
    /\ call.arg[1].kind = "DocumentTreeNode"
    /\ call.arg[1].doc = "docB"
    /\ Len(io.OccVrmlWriter.m_scene.nodes) = 1

\* C25: OccVrmlWriter::transfer of n >= 1 items sets the progress once per
\* item, to an integer within 0..100 that never decreases and is 100 after
\* the last item, also when n = 1; it returns true for every span, the empty
\* one included.
C25_VrmlProgress ==
    (call.op = "transfer" /\ call.target = "OccVrmlWriter") =>
        LET n == Len(call.arg)
        IN  /\ call.result = TRUE
            /\ Len(call.progress) = n
            /\ \A i \in 1..n : call.progress[i] \in 0..100
            /\ \A i \in 1..n : \A j \in 1..n : i <= j => call.progress[i] <= call.progress[j]
            /\ n >= 1 => call.progress[n] = 100

\* C26: toggleItemSelected called twice in a row with the same document
\* tree node item leaves the set of selected owners of the scene as it was
\* before the first call, from every state.
C26_ToggleTwice ==
    \A appItem \in AppItems :
        appItem.kind = "DocumentTreeNode" =>
            toggleItemSelected(toggleItemSelected(Self, appItem), appItem).m_gfxScene.selected
                = m_gfxScene.selected

\* A tree node of this document with several owners was toggled while one of
\* its owners was selected: a part of them is selected now, and toggling the
\* node again changes the selection.
C26_Witness ==
    /\ lastOp.op = "toggleItemSelected"
    /\ lastOp.val = "DocumentTreeNode"
    /\ lastOp.doc = "this"
    /\ nodeFace(lastOp.id) = 0
    /\ LET appItem == [ doc |-> "this", kind |-> "DocumentTreeNode", node |-> lastOp.id ]
           again == toggleItemSelected(Self, appItem).m_gfxScene.selected
       IN  /\ again # m_gfxScene.selected
           /\ again # {}
           /\ m_gfxScene.selected # {}

\* C27: the mesh driver's createEntity takes the triangulation of the label's
\* triangulation attribute whenever the attribute exists, and only without
\* the attribute the one of a FACE shape; it builds a MeshVS_Mesh, whose
\* display mode is Shading, exactly when that triangulation is non-null; the
\* entity it returns has the label and the mesh driver in every case.
C27_MeshCreateEntity ==
    driverCall.fn = "createEntity" /\ driverCall.driver = MeshDriver =>
        LET label == driverCall.label
            entity == driverCall.entity
            polyTri == IF label.triAttr # "absent" THEN label.triAttr = "set"
                       ELSE label.isShape /\ label.shapeType = "TopAbs_FACE"
                                /\ label.faceTri
        IN  /\ entity.m_aisObject # NullObject <=> polyTri
            /\ entity.m_aisObject # NullObject =>
                  /\ entity.m_aisObject[1] = "MeshVS_Mesh"
                  /\ createEntity_display(MeshDriver).m_aisObject = entity.m_aisObject[1]
                  /\ GraphicsEntity_displayMode(createEntity_display(MeshDriver))
                        = "MeshVS_DMF_Shading"
            /\ entity.m_label = label
            /\ entity.m_driverPtr = MeshDriver

\* The mesh driver was given a triangulated FACE whose triangulation attribute
\* holds no triangulation: it built no object, and the entity has the label
\* and the driver.
C27_Witness ==
    /\ driverCall.fn = "createEntity"
    /\ driverCall.driver = MeshDriver
    /\ driverCall.label.triAttr = "empty"
    /\ driverCall.label.isShape
    /\ driverCall.label.shapeType = "TopAbs_FACE"
    /\ driverCall.label.faceTri
    /\ driverCall.entity.m_aisObject = NullObject
    /\ driverCall.entity.m_label = driverCall.label
    /\ driverCall.entity.m_driverPtr = MeshDriver

\* C28: processAction(owner) changes no member of the GuiDocument when the
\* owner is null or is no owner of the view cube; for an owner of the view
\* cube it configures the camera animation once, with the view change that
\* sets the projection to the owner's main orientation and fits all, and
\* starts it once, and changes nothing else: the side-table, the selection
\* and the trihedron mode stay as they were in every case.
C28_ProcessAction ==
    [][ lastOp'.op = "processAction" =>
          LET graphicsOwner == lastOp'.val
              isViewCubeOwner == graphicsOwner.obj = ViewCubeObject
          IN  /\ m_vecGraphicsItem' = m_vecGraphicsItem
              /\ m_gfxScene' = m_gfxScene
              /\ m_viewTrihedronMode' = m_viewTrihedronMode
              /\ UNCHANGED << document, m_gpxBoundingBox, m_v3dView,
                              m_viewTrihedronCorner, m_aisViewCube >>
              /\ ~isViewCubeOwner => m_cameraAnimation' = m_cameraAnimation
              /\ isViewCubeOwner =>
                    /\ m_cameraAnimation'.nbConfigure = m_cameraAnimation.nbConfigure + 1
                    /\ m_cameraAnimation'.nbStart = m_cameraAnimation.nbStart + 1
                    /\ m_cameraAnimation'.state = "Running"
                    /\ m_cameraAnimation'.fnViewChange
                          = [ SetProj |-> graphicsOwner.MainOrientation, fitAll |-> TRUE ]
                    /\ m_cameraAnimation'.easingCurve = m_cameraAnimation.easingCurve
      ]_vars

\* An owner of the view cube was acted on while owners of an entity were
\* selected and the view cube was not the trihedron: the animation runs
\* towards the orientation of the owner.
C28_Witness ==
    /\ lastOp.op = "processAction"
    /\ lastOp.val.obj = ViewCubeObject
    /\ m_gfxScene.selected # {}
    /\ m_viewTrihedronMode # "AisViewCube"
    /\ m_cameraAnimation.state = "Running"
    /\ m_cameraAnimation.nbStart = MaxAnimations
    /\ m_cameraAnimation.fnViewChange
          = [ SetProj |-> lastOp.val.MainOrientation, fitAll |-> TRUE ]

\* What handleColorChanged of the shape driver may do to the object at
\* address e, told of docTreeNode: the key it recolors is the one bound to
\* the located shape of the node or, when no key is, the first one with that
\* shape among its SOLID sub-shapes; that key gets the surface color of the
\* label, and no other key, no other object and nothing of the scene changes.
\* Nothing at all changes when the node is not valid, the object is not a
\* colored shape, the label has no surface color or no key matches.
ShapeColorChange(e, docTreeNode) ==
    LET map == display.entities[e].customAspects
        direct == { i \in DOMAIN map : map[i].key = docTreeNode.shape }
        shared == { i \in DOMAIN map : docTreeNode.shape \in map[i].solids }
        matching == IF direct # {} THEN direct
                    ELSE { i \in shared : \A j \in shared : i <= j }
        nothing == \/ ~docTreeNode.isValid
                   \/ display.entities[e].m_aisObject # "XCAFPrs_AISObject"
                   \/ docTreeNode.color = "none"
                   \/ matching = {}
        changed == { i \in DOMAIN map : display'.entities[e].customAspects[i] # map[i] }
    IN  /\ DOMAIN display'.entities = DOMAIN display.entities
        /\ display'.scene = display.scene
        /\ \A o \in DOMAIN display.entities \ { e } :
              display'.entities[o] = display.entities[o]
        /\ [ display'.entities[e] EXCEPT !.customAspects = map ] = display.entities[e]
        /\ DOMAIN display'.entities[e].customAspects = DOMAIN map
        /\ Cardinality(changed) <= 1
        /\ changed \subseteq matching
        /\ nothing => display' = display
        /\ ~nothing =>
              \A i \in matching :
                  display'.entities[e].customAspects[i]
                      = [ map[i] EXCEPT !.color = docTreeNode.color ]

\* C29: colorChanged(node) goes to the driver of the side-table item of the
\* entity root of the node, and changes nothing when the root has no item;
\* handleColorChanged of the shape driver recolors at most one key of the
\* custom aspects map of the object, the one bound to the located shape or
\* else the first bound base shape holding it as a SOLID sub-shape, and
\* changes nothing for a node that is not valid, an object that is no colored
\* shape, a label without surface color or a shape no key matches.
C29_ColorChanged ==
    [][ /\ call'.op = "colorChanged" =>
              LET treeNodeId == call'.arg[1]
                  found == { i \in DOMAIN m_vecGraphicsItem :
                               m_vecGraphicsItem[i].entityTreeNodeId = nodeRoot(treeNodeId) }
              IN  /\ UNCHANGED guiVars
                  /\ found = {} => call'.target = "none" /\ display' = display
                  /\ \A i \in found :
                        LET gfxEntity == m_vecGraphicsItem[i].graphicsEntity
                        IN  /\ call'.target = gfxEntity.m_driverPtr
                            /\ gfxEntity.m_driverPtr = ShapeDriver =>
                                  /\ call'.result = "ok"
                                  /\ ShapeColorChange(gfxEntity.m_aisObject[2],
                                      DocumentTreeNode(treeNodeId, call'.arg[2]))
        /\ call'.op = "handleColorChanged" /\ call'.result = "ok" =>
              ShapeColorChange(call'.arg[1], call'.arg[2])
      ]_vars

\* The color of a sub-node changed whose solid is held by two bound compounds
\* of the object of its entity: the first compound has the new color, the
\* second one the color it had.
C29_Witness ==
    /\ call.op = "colorChanged"
    /\ call.target = ShapeDriver
    /\ call.arg[2] # "none"
    /\ \E i \in DOMAIN m_vecGraphicsItem :
          /\ m_vecGraphicsItem[i].entityTreeNodeId = nodeRoot(call.arg[1])
          /\ LET map == display.entities[m_vecGraphicsItem[i].graphicsEntity.m_aisObject[2]]
                             .customAspects
             IN  /\ Len(map) = 2
                 /\ map[1].key # call.arg[1]
                 /\ call.arg[1] \in map[1].solids
                 /\ call.arg[1] \in map[2].solids
                 /\ map[1].color = call.arg[2]
                 /\ map[2].color = InitialColor

====
